---- MODULE Spec2Model ----
(***************************************************************************)
(* A model of the semantic memory subsystem of Open-LLM-VTuber:            *)
(* RAGMemoryManager (src/open_llm_vtuber/agent/rag_memory.py), the store   *)
(* that keeps a FAISS flat index and a parallel metadata list, persists    *)
(* both to two files, and bulk-imports the conversation history when it is *)
(* constructed.                                                            *)
(*                                                                         *)
(* Text is a sequence of one-character strings, so that strip(), len() and *)
(* basename() are computed, not assumed. An exception is a value: every    *)
(* operator that models a method returns the store it leaves behind and    *)
(* whether it raised, and a try/except is the place where a raised flag is *)
(* cleared.                                                                *)
(***************************************************************************)
EXTENDS Integers, Sequences, FiniteSets, TLC

\* ------------------------------------------------------------------ bounds

\* Longest scope id enumerated exhaustively (the named examples are longer).
MaxIdLen == 3
\* Most records the store holds in the specification Spec.
MaxRecords == 2
\* Most messages the conversation history holds, over all its files.
MaxHist == 2
\* Most history files.
MaxHistories == 2
\* Most records the store holds in the specification SpecPeriodic, which runs
\* past the tenth record.
MaxPeriodic == 11
\* The records of the small stores that are searched.
MaxSearchRecords == 2
\* The characters of the string values of the objects that are parsed.
MaxStrLen == 2

\* ------------------------------------------------------- program constants

\* rag_memory.py:308  if len(self.metadata) % 10 == 0
SaveEvery == 10

\* ------------------------------------------------------------------- text

Letters == {"a", "c", "e", "h", "r", "t"}
Digits == {"0", "1"}
\* A letter outside ASCII (such as U+00E9), which Python's \w matches in a str
\* pattern.
NonAsciiLetters == {"e_acute"}
Whitespace == {" ", "\n"}

RECURSIVE LStrip(_)
LStrip(s) ==
  IF s = <<>> THEN s
  ELSE IF Head(s) \in Whitespace THEN LStrip(Tail(s)) ELSE s

RECURSIVE RStrip(_)
RStrip(s) ==
  IF s = <<>> THEN s
  ELSE IF s[Len(s)] \in Whitespace THEN RStrip(SubSeq(s, 1, Len(s) - 1)) ELSE s

\* str.strip()
Strip(s) == RStrip(LStrip(s))

\* posixpath.basename: i = p.rfind('/') + 1; return p[i:]
RECURSIVE RFindSlash(_, _)
RFindSlash(p, i) ==
  IF i = 0 THEN 0
  ELSE IF p[i] = "/" THEN i ELSE RFindSlash(p, i - 1)

Basename(p) == SubSeq(p, RFindSlash(p, Len(p)) + 1, Len(p))

\* The character class [\w\-_] of a str pattern: \w is Unicode-aware.
WordClass(ch) == ch \in Letters \cup Digits \cup NonAsciiLetters \cup {"_", "-"}

\* re.match(r"^[\w\-_]+$", s): one or more characters of the class, to the end.
\* ($ also matches before a final newline; the input was stripped first, so it
\* never ends in one.)
RECURSIVE AllWordClass(_)
AllWordClass(s) ==
  IF s = <<>> THEN TRUE
  ELSE WordClass(Head(s)) /\ AllWordClass(Tail(s))

ReMatchComponent(s) == s # <<>> /\ AllWordClass(s)

\* Mutant of _sanitize_path_component: validates the stripped id as a whole and
\* skips os.path.basename.
SanitizeNoBasename(component) ==
  LET sanitized == Strip(component)
  IN  IF ~ReMatchComponent(sanitized)
      THEN [raised |-> TRUE, value |-> <<>>]
      ELSE [raised |-> FALSE, value |-> sanitized]

\* _sanitize_path_component
SanitizePathComponent(component) ==
  LET sanitized == Basename(Strip(component))
  IN  IF ~ReMatchComponent(sanitized)
      THEN [raised |-> TRUE, value |-> <<>>]
      ELSE [raised |-> FALSE, value |-> sanitized]

\* --------------------------------------------------------------- embedder

\* self.embedder.get_sentence_embedding_dimension()
EmbeddingDim == 2

Hi == <<"h", "i">>
Yo == <<"y", "o">>

\* self.embedder.encode(content, normalize_embeddings=True): a deterministic
\* unit vector per text. Coordinates are in fifths (5 stands for 1.0), so every
\* vector below has squared length 25.
No == <<"n", "o">>

\* More sample contents and their unit vectors, in fifths.
EmbedTable ==
  <<[content |-> No, vec |-> <<-5, 0>>],
    [content |-> <<"a">>, vec |-> <<4, 3>>],
    [content |-> <<"b">>, vec |-> <<0, 5>>],
    [content |-> <<"c">>, vec |-> <<-3, 4>>],
    [content |-> <<"d">>, vec |-> <<4, -3>>],
    [content |-> <<"e">>, vec |-> <<3, -4>>],
    [content |-> <<"f">>, vec |-> <<0, -5>>],
    [content |-> <<"g">>, vec |-> <<-4, -3>>],
    [content |-> <<"h">>, vec |-> <<-3, -4>>]>>

Embed(content) ==
  CASE content = Hi -> <<5, 0>>
    [] content = Yo -> <<3, 4>>
    [] \E i \in 1..Len(EmbedTable) : EmbedTable[i].content = content ->
         EmbedTable[CHOOSE i \in 1..Len(EmbedTable) :
                      EmbedTable[i].content = content].vec
    [] OTHER -> <<0, 5>>

\* ------------------------------------------------------------ file formats

NoIndexData == [d |-> 0, ntotal |-> 0, xb |-> <<>>]
AbsentIndexFile == [st |-> "absent", data |-> NoIndexData]
AbsentMetaFile == [st |-> "absent", data |-> <<>>]

RECURSIVE Flatten(_)
Flatten(vs) == IF vs = <<>> THEN <<>> ELSE Head(vs) \o Flatten(Tail(vs))

\* faiss.write_index of an IndexFlatL2: the dimension, the count, and the
\* vectors one after the other as one flat array.
IndexBytes(idx) == [d |-> EmbeddingDim, ntotal |-> Len(idx), xb |-> Flatten(idx)]

\* faiss.read_index: the flat array cut back into ntotal vectors of d numbers.
IndexFromBytes(b) ==
  [i \in 1..b.ntotal |-> SubSeq(b.xb, (i - 1) * b.d + 1, i * b.d)]

\* json.dump(self.metadata, ...): each record an object, its keys in insertion
\* order.
JsonObject(meta) ==
  << <<"role", meta.role>>, <<"content", meta.content>>,
     <<"timestamp", meta.timestamp>> >>

JsonDump(metadata) == [i \in 1..Len(metadata) |-> JsonObject(metadata[i])]

\* dict lookup by key in a decoded object
JsonGet(obj, key) ==
  LET i == CHOOSE j \in 1..Len(obj) : obj[j][1] = key IN obj[i][2]

\* json.load(f): the list of dicts
JsonLoad(objs) ==
  [i \in 1..Len(objs) |->
     [role |-> JsonGet(objs[i], "role"),
      content |-> JsonGet(objs[i], "content"),
      timestamp |-> JsonGet(objs[i], "timestamp")]]

\* What a write to a file can do: replace it ("ok"), raise before touching it
\* ("keep": the file cannot be opened), or raise after truncating it
\* ("corrupt": a partial file that no longer deserializes).
WriteOutcomes == {"ok", "keep", "corrupt"}

WriteFile(old, data, empty, outcome) ==
  CASE outcome = "ok" -> [st |-> "ok", data |-> data]
    [] outcome = "keep" -> old
    [] OTHER -> [st |-> "corrupt", data |-> empty]

\* ------------------------------------------------------------------ store

(***************************************************************************)
(* A store value st holds the fields of one RAGMemoryManager and the two   *)
(* files of its scope:                                                     *)
(*   device, index, metadata      self.device, self.index, self.metadata   *)
(*   diskIndex, diskMeta          index.faiss and metadata.json            *)
(* and what the operation in progress did:                                 *)
(*   saves      how often _save_index got past its guard and wrote         *)
(*   saveOk     whether the last such write replaced both files            *)
(*   appended   how many records the operation appended                    *)
(***************************************************************************)

Record(role, content, timestamp) ==
  [role |-> role, content |-> content, timestamp |-> timestamp]

\* _memory_exists
MemoryExists(metadata, content, role, timestamp) ==
  \E i \in 1..Len(metadata) :
     /\ metadata[i].content = content
     /\ metadata[i].role = role
     /\ metadata[i].timestamp = timestamp

\* Mutant of the writes of _save_index: the index file is written and the
\* metadata file is not.
SaveWritesIndexOnly(st, io) ==
  [st EXCEPT !.diskIndex = WriteFile(st.diskIndex, IndexBytes(st.index),
                                     NoIndexData, io.wIndex),
             !.saves = @ + 1,
             !.saveOk = (io.wIndex = "ok")]

\* Mutant of the writes of _save_index: when the copy to the CPU or the write
\* of the copy raises, the index is not written directly.
SaveWritesNoFallback(st, io) ==
  LET bytes == IndexBytes(st.index)
      viaCpu == IF io.gpuToCpu
                THEN WriteFile(st.diskIndex, bytes, NoIndexData, io.wIndex)
                ELSE st.diskIndex
      idx == IF st.device = "cuda"
             THEN [file |-> viaCpu, raised |-> ~(io.gpuToCpu /\ io.wIndex = "ok")]
             ELSE [file |-> WriteFile(st.diskIndex, bytes, NoIndexData, io.wIndex),
                   raised |-> io.wIndex # "ok"]
  IN  IF idx.raised
      THEN [st EXCEPT !.diskIndex = idx.file, !.saves = @ + 1, !.saveOk = FALSE]
      ELSE [st EXCEPT !.diskIndex = idx.file,
                      !.diskMeta = WriteFile(st.diskMeta, JsonDump(st.metadata),
                                             <<>>, io.wMeta),
                      !.saves = @ + 1,
                      !.saveOk = (io.wMeta = "ok")]

\* The writes of _save_index, in its order: the index file, then, only if that
\* did not raise, the metadata file. On cuda the index is first copied to the
\* CPU; if the copy or the write of the copy raises, the index is written
\* directly. io = [gpuToCpu: BOOLEAN, wIndex, wDirect, wMeta: WriteOutcomes].
SaveWrites(st, io) ==
  LET bytes == IndexBytes(st.index)
      viaCpu == IF io.gpuToCpu
                THEN WriteFile(st.diskIndex, bytes, NoIndexData, io.wIndex)
                ELSE st.diskIndex
      idx == IF st.device = "cuda"
             THEN IF io.gpuToCpu /\ io.wIndex = "ok"
                  THEN [file |-> viaCpu, raised |-> FALSE]
                  ELSE [file |-> WriteFile(viaCpu, bytes, NoIndexData, io.wDirect),
                        raised |-> io.wDirect # "ok"]
             ELSE [file |-> WriteFile(st.diskIndex, bytes, NoIndexData, io.wIndex),
                   raised |-> io.wIndex # "ok"]
  IN  IF idx.raised
      THEN [st EXCEPT !.diskIndex = idx.file, !.saves = @ + 1, !.saveOk = FALSE]
      ELSE [st EXCEPT !.diskIndex = idx.file,
                      !.diskMeta = WriteFile(st.diskMeta, JsonDump(st.metadata),
                                             <<>>, io.wMeta),
                      !.saves = @ + 1,
                      !.saveOk = (io.wMeta = "ok")]

\* Mutant of _save_index: the files are written for an empty store too.
SaveIndexAlways(st, io) == SaveWrites(st, io)

\* _save_index: nothing is written for an empty store; whatever a write raises
\* is caught and logged.
SaveIndex(st, io) ==
  IF Len(st.metadata) > 0 THEN SaveWrites(st, io) ELSE st

\* Mutant of add_memory's try block: the record is appended before index.add,
\* so that it stays when index.add raises.
AddMemoryTryMetaFirst(st, role, content, timestamp, fail, io) ==
  IF fail = "embed"
  THEN [st |-> st, raised |-> TRUE]
  ELSE LET st1 == [st EXCEPT
                     !.metadata = Append(@, Record(role, content, timestamp)),
                     !.appended = @ + 1]
           st2 == [st1 EXCEPT !.index = Append(@, Embed(content))]
       IN  IF fail = "index"
           THEN [st |-> st1, raised |-> TRUE]
           ELSE [st |-> IF Len(st2.metadata) % SaveEvery = 0
                        THEN SaveIndex(st2, io) ELSE st2,
                 raised |-> FALSE]

\* Mutant of add_memory's try block: the periodic save tests the number of
\* records before the append.
AddMemoryTrySaveBeforeAppend(st, role, content, timestamp, fail, io) ==
  IF fail = "embed" \/ fail = "index"
  THEN [st |-> st, raised |-> TRUE]
  ELSE LET st2 == [st EXCEPT
                     !.index = Append(@, Embed(content)),
                     !.metadata = Append(@, Record(role, content, timestamp)),
                     !.appended = @ + 1]
       IN  [st |-> IF Len(st.metadata) % SaveEvery = 0
                   THEN SaveIndex(st2, io) ELSE st2,
            raised |-> FALSE]

\* Mutant of add_memory's try block: the new record and its vector are put
\* first.
AddMemoryTryPrepend(st, role, content, timestamp, fail, io) ==
  IF fail = "embed" \/ fail = "index"
  THEN [st |-> st, raised |-> TRUE]
  ELSE LET st2 == [st EXCEPT
                     !.index = <<Embed(content)>> \o @,
                     !.metadata = <<Record(role, content, timestamp)>> \o @,
                     !.appended = @ + 1]
       IN  [st |-> IF Len(st2.metadata) % SaveEvery = 0
                   THEN SaveIndex(st2, io) ELSE st2,
            raised |-> FALSE]

\* Mutant of the try block of add_memory: the periodic save is left out.
AddMemoryTryNoPeriodicSave(st, role, content, timestamp, fail, io) ==
  IF fail = "embed"
  THEN [st |-> st, raised |-> TRUE]
  ELSE IF fail = "index"
  THEN [st |-> st, raised |-> TRUE]
  ELSE LET st1 == [st EXCEPT !.index = Append(@, Embed(content))]
           st2 == [st1 EXCEPT
                     !.metadata = Append(@, Record(role, content, timestamp)),
                     !.appended = @ + 1]
       IN  [st |-> st2, raised |-> FALSE]

\* The try block of add_memory, a step at a time: encode, index.add,
\* metadata.append, the periodic save. fail is "none", "embed" (encode raises)
\* or "index" (index.add raises); what it returns when it raises is the store
\* as the steps before left it.
AddMemoryTry(st, role, content, timestamp, fail, io) ==
  IF fail = "embed"
  THEN [st |-> st, raised |-> TRUE]
  ELSE IF fail = "index"
  THEN [st |-> st, raised |-> TRUE]
  ELSE LET st1 == [st EXCEPT !.index = Append(@, Embed(content))]
           st2 == [st1 EXCEPT
                     !.metadata = Append(@, Record(role, content, timestamp)),
                     !.appended = @ + 1]
       IN  [st |-> IF Len(st2.metadata) % SaveEvery = 0
                   THEN SaveIndex(st2, io) ELSE st2,
            raised |-> FALSE]

\* Mutant of add_memory: the content is not tested.
AddMemoryStoresBlank(st, role, content, timestamp, fail, io) ==
  IF MemoryExists(st.metadata, content, role, timestamp)
  THEN [st |-> st, outcome |-> "duplicate", raised |-> FALSE]
  ELSE LET r == AddMemoryTry(st, role, content, timestamp, fail, io)
       IN  IF r.raised
           THEN [st |-> r.st, outcome |-> "dropped", raised |-> FALSE]
           ELSE [st |-> r.st, outcome |-> "stored", raised |-> FALSE]

\* Mutant of add_memory: the duplicate check is skipped.
AddMemoryNoDedup(st, role, content, timestamp, fail, io) ==
  IF content = <<>> \/ Strip(content) = <<>>
  THEN [st |-> st, outcome |-> "blank", raised |-> FALSE]
  ELSE LET r == AddMemoryTry(st, role, content, timestamp, fail, io)
       IN  IF r.raised
           THEN [st |-> r.st, outcome |-> "dropped", raised |-> FALSE]
           ELSE [st |-> r.st, outcome |-> "stored", raised |-> FALSE]

\* Mutant of add_memory: the except clause logs and raises again.
AddMemoryReraise(st, role, content, timestamp, fail, io) ==
  IF content = <<>> \/ Strip(content) = <<>>
  THEN [st |-> st, outcome |-> "blank", raised |-> FALSE]
  ELSE IF MemoryExists(st.metadata, content, role, timestamp)
  THEN [st |-> st, outcome |-> "duplicate", raised |-> FALSE]
  ELSE LET r == AddMemoryTry(st, role, content, timestamp, fail, io)
       IN  IF r.raised
           THEN [st |-> r.st, outcome |-> "dropped", raised |-> TRUE]
           ELSE [st |-> r.st, outcome |-> "stored", raised |-> FALSE]

\* add_memory: returns the store and how the call ended: "blank", "duplicate",
\* "dropped" (the try block raised; the except clause logs and returns) or
\* "stored".
AddMemory(st, role, content, timestamp, fail, io) ==
  IF content = <<>> \/ Strip(content) = <<>>
  THEN [st |-> st, outcome |-> "blank", raised |-> FALSE]
  ELSE IF MemoryExists(st.metadata, content, role, timestamp)
  THEN [st |-> st, outcome |-> "duplicate", raised |-> FALSE]
  ELSE LET r == AddMemoryTry(st, role, content, timestamp, fail, io)
       IN  IF r.raised
           THEN [st |-> r.st, outcome |-> "dropped", raised |-> FALSE]
           ELSE [st |-> r.st, outcome |-> "stored", raised |-> FALSE]

\* The try block of _load_or_create_index: read_index (and, on cuda, the copy
\* to the GPU), then json.load. A file that is "corrupt" does not deserialize;
\* env.readIndex / env.readMeta say whether an intact file can be read at all.
LoadTry(st, env) ==
  IF ~(st.diskIndex.st = "ok" /\ env.readIndex)
  THEN [st |-> st, raised |-> TRUE]
  ELSE IF st.device = "cuda" /\ ~env.toGpuLoad
  THEN [st |-> st, raised |-> TRUE]
  ELSE LET st1 == [st EXCEPT !.index = IndexFromBytes(st.diskIndex.data)]
       IN  IF ~(st.diskMeta.st = "ok" /\ env.readMeta)
           THEN [st |-> st1, raised |-> TRUE]
           ELSE [st |-> [st1 EXCEPT !.metadata = JsonLoad(st.diskMeta.data)],
                 raised |-> FALSE]

\* The tail of _load_or_create_index: a new empty index, on the GPU when the
\* device is cuda. index_cpu_to_gpu is outside any try block here.
CreateIndex(st, env) ==
  IF st.device = "cuda" /\ ~env.toGpuCreate
  THEN [st |-> st, raised |-> TRUE]
  ELSE [st |-> [st EXCEPT !.index = <<>>, !.metadata = <<>>], raised |-> FALSE]

\* Mutant of _load_or_create_index: when the try block raises, the except
\* clause returns with what was loaded so far instead of creating a new index.
LoadOrCreateIndexKeepPartial(st, env) ==
  IF st.diskIndex.st # "absent" /\ st.diskMeta.st # "absent"
  THEN LET r == LoadTry(st, env)
       IN  IF ~r.raised
           THEN r
           ELSE [st |-> [r.st EXCEPT !.metadata = <<>>], raised |-> FALSE]
  ELSE CreateIndex(st, env)

\* _load_or_create_index
LoadOrCreateIndex(st, env) ==
  IF st.diskIndex.st # "absent" /\ st.diskMeta.st # "absent"
  THEN LET r == LoadTry(st, env)
       IN  IF ~r.raised
           THEN r
           ELSE CreateIndex([r.st EXCEPT !.metadata = <<>>], env)
  ELSE CreateIndex(st, env)

\* A message of the history has no timestamp key when its timestamp is Missing.
Missing == "<missing>"

\* msg.get("timestamp", "")
MsgTimestamp(msg) == IF msg.timestamp = Missing THEN "" ELSE msg.timestamp

\* Mutant of the inner loop of _load_existing_memories: only the user's turns
\* pass the role test.
RECURSIVE ImportMessagesHumanOnly(_, _, _, _, _)
ImportMessagesHumanOnly(acc, msgs, h, k, env) ==
  IF k > Len(msgs) THEN acc
  ELSE LET msg == msgs[k]
           content == msg.content
           timestamp == MsgTimestamp(msg)
           role == msg.role
       IN  IF msg.role = "human" /\ msg.content # <<>>
           THEN IF MemoryExists(acc.st.metadata, content, role, timestamp)
                THEN ImportMessagesHumanOnly(acc, msgs, h, k + 1, env)
                ELSE LET r == AddMemory(acc.st, role, content, timestamp,
                                        IF <<h, k>> \in env.addFails
                                        THEN "embed" ELSE "none",
                                        env.io)
                     IN  ImportMessagesHumanOnly(
                           [st |-> r.st, total |-> acc.total + 1,
                            dropped |-> acc.dropped
                                        + (IF r.outcome = "dropped" THEN 1 ELSE 0)],
                           msgs, h, k + 1, env)
           ELSE ImportMessagesHumanOnly(acc, msgs, h, k + 1, env)

\* The inner loop of _load_existing_memories over the messages of history h,
\* from message k on. acc = [st, total, dropped]: the store, total_memories,
\* and how many add_memory calls dropped their memory. env.addFails holds the
\* places <<h, k>> whose add_memory call fails to embed.
RECURSIVE ImportMessages(_, _, _, _, _)
ImportMessages(acc, msgs, h, k, env) ==
  IF k > Len(msgs) THEN acc
  ELSE LET msg == msgs[k]
           content == msg.content
           timestamp == MsgTimestamp(msg)
           role == msg.role
       IN  IF msg.role \in {"human", "ai"} /\ msg.content # <<>>
           THEN IF MemoryExists(acc.st.metadata, content, role, timestamp)
                THEN ImportMessages(acc, msgs, h, k + 1, env)
                ELSE LET r == AddMemory(acc.st, role, content, timestamp,
                                        IF <<h, k>> \in env.addFails
                                        THEN "embed" ELSE "none",
                                        env.io)
                     IN  ImportMessages(
                           [st |-> r.st, total |-> acc.total + 1,
                            dropped |-> acc.dropped
                                        + (IF r.outcome = "dropped" THEN 1 ELSE 0)],
                           msgs, h, k + 1, env)
           ELSE ImportMessages(acc, msgs, h, k + 1, env)

\* The outer loop of _load_existing_memories, from history h on. get_history
\* of history env.failAt raises.
RECURSIVE ImportHistories(_, _, _, _)
ImportHistories(acc, hs, h, env) ==
  IF h > Len(hs) THEN [acc |-> acc, raised |-> FALSE]
  ELSE IF env.failAt = h THEN [acc |-> acc, raised |-> TRUE]
  ELSE ImportHistories(ImportMessages(acc, hs[h], h, 1, env), hs, h + 1, env)

\* _load_existing_memories: get_history_list raises when env.failAt = 0. The
\* except clause logs, and the final save is skipped. It ends "aborted" when
\* reading the history raised, "dropped" when an add_memory call dropped its
\* memory, "ok" otherwise.
LoadExistingMemories(st, hs, env) ==
  IF env.failAt = 0 THEN [st |-> st, outcome |-> "aborted"]
  ELSE LET r == ImportHistories([st |-> st, total |-> 0, dropped |-> 0],
                                hs, 1, env)
       IN  IF r.raised THEN [st |-> r.acc.st, outcome |-> "aborted"]
           ELSE [st |-> IF r.acc.total > 0
                        THEN SaveIndex(r.acc.st, env.io)
                        ELSE r.acc.st,
                 outcome |-> IF r.acc.dropped > 0 THEN "dropped" ELSE "ok"]

\* Mutant of the device choice: a request for cuda is not checked against the
\* platform.
ResolveDeviceCudaAsAsked(device, isWindows, cudaAvailable, hasGpu) ==
  IF device = "auto"
  THEN IF isWindows THEN "cpu"
       ELSE IF cudaAvailable
            THEN IF hasGpu THEN "cuda" ELSE "cpu"
            ELSE "cpu"
  ELSE IF device = "cuda"
  THEN IF ~cudaAvailable THEN "cpu"
       ELSE IF ~hasGpu THEN "cpu"
       ELSE "cuda"
  ELSE "cpu"

\* __init__, the device choice (lines 86-124)
ResolveDevice(device, isWindows, cudaAvailable, hasGpu) ==
  IF device = "auto"
  THEN IF isWindows THEN "cpu"
       ELSE IF cudaAvailable
            THEN IF hasGpu THEN "cuda" ELSE "cpu"
            ELSE "cpu"
  ELSE IF device = "cuda"
  THEN IF isWindows THEN "cpu"
       ELSE IF ~cudaAvailable THEN "cpu"
       ELSE IF ~hasGpu THEN "cpu"
       ELSE "cuda"
  ELSE "cpu"

\* __init__ up to the storage paths (lines 74-161): the dependency check, the
\* device, the scope id, the GPU resource, the embedding model.
\* sys = [deps, isWindows, cudaAvailable, hasGpu, gpuAlloc, embedder: BOOLEAN]
InitHead(conf_uid, device, sys) ==
  IF ~sys.deps THEN [raised |-> TRUE, device |-> "cpu", confUid |-> <<>>]
  ELSE LET dev == ResolveDevice(device, sys.isWindows, sys.cudaAvailable,
                                sys.hasGpu)
           uid == SanitizePathComponent(conf_uid)
           dev2 == IF dev = "cuda" /\ ~sys.gpuAlloc THEN "cpu" ELSE dev
       IN  IF uid.raised THEN [raised |-> TRUE, device |-> dev, confUid |-> <<>>]
           ELSE IF ~sys.embedder
           THEN [raised |-> TRUE, device |-> dev2, confUid |-> uid.value]
           ELSE [raised |-> FALSE, device |-> dev2, confUid |-> uid.value]

\* ------------------------------------------------------------------ state

VARIABLES
  pc,         \* "ready": a constructed store; "constructed", "loaded": inside
              \* __init__, before _load_or_create_index and before
              \* _load_existing_memories; "failed": __init__ raised
  device,     \* self.device
  confUid,    \* self.conf_uid
  index,      \* self.index: the vectors, by ordinal
  metadata,   \* self.metadata
  diskIndex,  \* rag_memory/<conf_uid>/index.faiss
  diskMeta,   \* rag_memory/<conf_uid>/metadata.json
  history,    \* the conversation history of the scope: files of messages
  op,         \* the operation that ran last
  outcome,    \* how it ended
  raised,     \* whether it raised to its caller
  saves,      \* how often it wrote the files
  saveOk,     \* whether its last write replaced both files
  appended,   \* how many records it appended
  nAdded,     \* add_memory calls that stored a record since construction
  sanIn,      \* the scope id a caller of SpecScope constructs stores with
  search,     \* the last search_relevant_context call: arguments and result
  extract,    \* the extract_memories call in flight or last finished
  agent,      \* the last create_agent call: settings and what it built
  call,       \* the constructor, add_memory or save call a caller watches:
              \* its arguments and the conditions it met
  writers,    \* the add_memory calls in flight on other threads: each one's
              \* arguments and position
  tts,        \* the last tts_filter call: arguments, stages run and result
  llm,        \* the llm_configs a caller holds and what create_agent made of
              \* them
  unsaved     \* the records appended to self.metadata since _save_index last
              \* ran; kept by the actions of SpecCrash

vars == <<pc, device, confUid, index, metadata, diskIndex, diskMeta, history,
          op, outcome, raised, saves, saveOk, appended, nAdded, sanIn, search, extract,
          agent, call, writers, tts, llm, unsaved>>

storeVars == <<index, metadata, diskIndex, diskMeta, saves, saveOk, appended>>

Char01 == <<"c", "h", "a", "r", "_", "0", "1">>
DotDotEtc == <<".", ".", "/", ".", ".", "/", "e", "t", "c">>

Blank == <<" ">>
AddFails == {"none", "embed", "index"}

\* The conditions of the file system and the GPU during one operation.
IOs ==
  [gpuToCpu : BOOLEAN, wIndex : WriteOutcomes, wDirect : WriteOutcomes,
   wMeta : WriteOutcomes]

QuietIO == [gpuToCpu |-> TRUE, wIndex |-> "ok", wDirect |-> "ok", wMeta |-> "ok"]

\* The conditions that the device can tell apart: the GPU copy and the direct
\* write are only reached on cuda.
IOsOf(dev) ==
  IF dev = "cuda" THEN IOs
  ELSE {io \in IOs : io.gpuToCpu /\ io.wDirect = "ok"}

Store ==
  [device |-> device, index |-> index, metadata |-> metadata,
   diskIndex |-> diskIndex, diskMeta |-> diskMeta,
   saves |-> 0, saveOk |-> FALSE, appended |-> 0]

Install(st) ==
  /\ index' = st.index
  /\ metadata' = st.metadata
  /\ diskIndex' = st.diskIndex
  /\ diskMeta' = st.diskMeta
  /\ saves' = st.saves
  /\ saveOk' = st.saveOk
  /\ appended' = st.appended

\* A store that was constructed for the scope char_01 on a cpu, with no files
\* and no history yet.
\* An optional argument: None, or a value.
NoneArg == [given |-> FALSE, value |-> 0]
Some(v) == [given |-> TRUE, value |-> v]

\* No search_relevant_context call was made yet.
IdleSearch ==
  [query |-> <<>>, threshold |-> NoneArg, maxLength |-> NoneArg,
   fail |-> "none", results |-> <<>>, sims |-> <<>>, picked |-> <<>>,
   result |-> <<>>]

\* No create_agent call was made yet.
\* enable, filtering, confUid, device: enable_rag_memory,
\* rag_use_memory_filtering, conf_uid and rag_device as given; prompt: whether
\* the extraction prompt can be loaded; extractor: whether a MemoryExtractor
\* was created; manager: whether rag_memory_manager is a RAGMemoryManager;
\* managerExtractor: whether that manager holds the extractor; error: what the
\* construction raised.
IdleAgent ==
  [done |-> FALSE, enable |-> FALSE, filtering |-> "absent",
   confUid |-> [given |-> FALSE, value |-> <<>>], device |-> "auto", prompt |-> TRUE, extractor |-> FALSE, manager |-> FALSE,
   managerExtractor |-> FALSE, error |-> "none"]

\* No call is watched.
IdleCall ==
  [turn |-> [role |-> "", content |-> <<>>, timestamp |-> ""], fail |-> "none",
   io |-> QuietIO]

\* The threads of the process that call add_memory on the one store.
NumWriters == 2
Writers == 1..NumWriters

\* No add_memory call is in flight on any thread.
\* pc: "idle", "checked" (past the blank and duplicate checks), "indexed"
\* (past index.add), "appended" (past metadata.append).
IdleWriters ==
  [w \in Writers |-> [pc |-> "idle", turn |-> [role |-> "", content |-> <<>>,
                                               timestamp |-> ""]]]

\* No function of the TTS preprocessor was called.
\* fn: the function called; text: its text; flags: the stages tts_filter is
\* asked to run; words, replacement: the forbidden words and what replaces
\* them; fails: the stages that raise; translation: what the translator
\* answers; ran: the stages whose function was called, in order; sent: the
\* text the translator was called with; result: what was returned; raised:
\* whether the call raised.
IdleTts ==
  [done |-> FALSE, fn |-> "", text |-> <<>>, flags |-> {}, words |-> <<>>,
   replacement |-> <<>>, fails |-> {}, translation |-> <<>>, ran |-> <<>>,
   sent |-> <<>>, result |-> <<>>, raised |-> FALSE]

\* llm_configs.get(llm_provider) when llm_configs has no entry for the
\* provider: None.
NoConfig == [given |-> FALSE, interrupt |-> "absent", rest |-> {}]

\* What a create_agent call made of the configuration: how it ended, the
\* interrupt_method and the keyword arguments it created the LLM with.
NoUse == [error |-> "none", interrupt |-> "", kwargs |-> {}]

\* No agent_settings and llm_configs are held.
\* provider: agent_settings["basic_memory_agent"]["llm_provider"], "" when it
\* is not set; config: llm_configs[provider] as it is now; orig: as the
\* caller built it; calls: the create_agent calls made with them; first, last:
\* what the first and the latest call made of them.
IdleLlm ==
  [held |-> FALSE, provider |-> "", config |-> NoConfig, orig |-> NoConfig,
   calls |-> 0, first |-> NoUse, last |-> NoUse]

\* No extract_memories call is in flight.
\* pc: "idle", "reply" (a reply text is at hand), "streaming" (inside the
\* async for loop), "parsing" (the loop is over, the response is being parsed
\* and checked), "done"; calls: how often
\* chat_completion was called; sent, fenced, comma: the JSON value the
\* language model rendered and how; flaw: what is wrong with the reply;
\* chunks: the chunks still to come; text: response_text; parsed: what
\* _parse_json_response returned; how: how the call ended; result: what it
\* returned.
IdleExtract ==
  [pc |-> "idle", calls |-> 0, content |-> <<>>, flaw |-> "none",
   sent |-> [t |-> "null", n |-> 0, s |-> <<>>, items |-> <<>>],
   fenced |-> FALSE, comma |-> FALSE, chunks |-> <<>>, text |-> <<>>,
   parsed |-> [ok |-> FALSE,
               val |-> [t |-> "null", n |-> 0, s |-> <<>>, items |-> <<>>],
               loads |-> 0],
   how |-> "none",
   result |-> [importance |-> [nan |-> FALSE, tenths |-> 0], memories |-> <<>>]]

NewStore ==
  /\ pc = "ready"
  /\ device = "cpu"
  /\ confUid = Char01
  /\ index = <<>>
  /\ metadata = <<>>
  /\ diskIndex = AbsentIndexFile
  /\ diskMeta = AbsentMetaFile
  /\ history = <<>>
  /\ op = "init"
  /\ outcome = "ok"
  /\ raised = FALSE
  /\ saves = 0
  /\ saveOk = FALSE
  /\ appended = 0
  /\ nAdded = 0

\* Nothing but the TTS preprocessor has been used.
InitButTts ==
  /\ NewStore
  /\ sanIn = <<>>
  /\ search = IdleSearch
  /\ agent = IdleAgent
  /\ call = IdleCall
  /\ writers = IdleWriters
  /\ llm = IdleLlm
  /\ unsaved = 0
  /\ extract = IdleExtract

Init ==
  /\ NewStore
  /\ sanIn = <<>>
  /\ search = IdleSearch
  /\ agent = IdleAgent
  /\ call = IdleCall
  /\ writers = IdleWriters
  /\ tts = IdleTts
  /\ llm = IdleLlm
  /\ unsaved = 0
  /\ extract = IdleExtract

\* ---------------------------------------------------------------- actions

SysEnvs ==
  [deps : BOOLEAN, isWindows : BOOLEAN, cudaAvailable : BOOLEAN,
   hasGpu : BOOLEAN, gpuAlloc : BOOLEAN, embedder : BOOLEAN]

\* The machines of Spec: Linux with a GPU build of faiss, with and without
\* CUDA, on which at most one of the two setup steps fails.
LinuxSysEnvs ==
  {sys \in SysEnvs : ~sys.isWindows /\ sys.hasGpu /\ sys.gpuAlloc
                     /\ (sys.deps \/ sys.embedder)}

DeviceArgs == {"auto", "cpu", "cuda", "tpu"}

LoadEnvs ==
  [readIndex : BOOLEAN, readMeta : BOOLEAN, toGpuLoad : BOOLEAN,
   toGpuCreate : BOOLEAN]

\* The load conditions that the device can tell apart.
LoadEnvsOf(dev) ==
  IF dev = "cuda" THEN LoadEnvs
  ELSE {env \in LoadEnvs : env.toGpuLoad /\ env.toGpuCreate}

\* RAGMemoryManager(conf_uid, device=...) up to self.metadata = [] (line 161).
\* A new instance replaces the one before it; the files stay.
Construct(ids, devs, sysEnvs) ==
  /\ pc \in {"ready", "failed"}
  /\ \E conf_uid \in ids, dev \in devs, sys \in sysEnvs :
       LET r == InitHead(conf_uid, dev, sys)
       IN  /\ pc' = IF r.raised THEN "failed" ELSE "constructed"
           /\ device' = IF r.raised THEN "cpu" ELSE r.device
           /\ confUid' = IF r.raised THEN <<>> ELSE r.confUid
           /\ raised' = r.raised
  /\ index' = <<>>
  /\ metadata' = <<>>
  /\ op' = "construct"
  /\ outcome' = "ok"
  /\ saves' = 0
  /\ saveOk' = FALSE
  /\ appended' = 0
  /\ nAdded' = 0
  /\ UNCHANGED <<diskIndex, diskMeta, history, sanIn, search, extract,
                 agent, call, writers, tts, llm, unsaved>>

\* self._load_or_create_index() (line 164)
LoadOrCreate ==
  /\ pc = "constructed"
  /\ \E env \in LoadEnvsOf(device) :
       LET r == LoadOrCreateIndex(Store, env)
       IN  /\ pc' = IF r.raised THEN "failed" ELSE "loaded"
           /\ raised' = r.raised
           /\ Install(IF r.raised
                      THEN [r.st EXCEPT !.index = <<>>, !.metadata = <<>>]
                      ELSE r.st)
  /\ op' = "load"
  /\ outcome' = "ok"
  /\ UNCHANGED <<device, confUid, history, nAdded, sanIn, search, extract,
                 agent, call, writers, tts, llm, unsaved>>

\* The places <<file, message>> of the messages of hs.
Places(hs) ==
  {pl \in (1..Len(hs)) \X (1..MaxHist) : pl[2] <= Len(hs[pl[1]])}

\* self._load_existing_memories() (line 167), which ends __init__. ios are the
\* file-system conditions the model lets it meet; cap bounds the model, not
\* the code.
ImportHistory(ios, cap) ==
  /\ pc = "loaded"
  /\ \E failAt \in 0..(Len(history) + 1), addFails \in SUBSET Places(history),
        io \in ios :
       LET env == [failAt |-> failAt, addFails |-> addFails, io |-> io]
           r == LoadExistingMemories(Store, history, env)
       IN  /\ Len(r.st.index) <= cap
           /\ Install(r.st)
           /\ outcome' = r.outcome
  /\ pc' = "ready"
  /\ op' = "import"
  /\ raised' = FALSE
  /\ UNCHANGED <<device, confUid, history, nAdded, sanIn, search, extract,
                 agent, call, writers, tts, llm, unsaved>>

\* add_memory(conf_uid, role, content, timestamp) on the constructed store,
\* with its arguments drawn from turns. The conf_uid argument is not read.
\* cap bounds the model, not the code.
AddMemoryCall(turns, ios, cap) ==
  /\ pc = "ready"
  /\ \E t \in turns, fail \in AddFails,
        io \in (IF (Len(metadata) + 1) % SaveEvery = 0 THEN ios ELSE {QuietIO}) :
       LET r == AddMemory(Store, t.role, t.content, t.timestamp, fail, io)
       IN  /\ Len(r.st.metadata) <= cap
           /\ Len(r.st.index) <= cap
           /\ Install(r.st)
           /\ outcome' = r.outcome
           /\ raised' = r.raised
           /\ nAdded' = IF r.outcome = "stored" THEN nAdded + 1 ELSE nAdded
  /\ op' = "add"
  /\ UNCHANGED <<pc, device, confUid, history, sanIn, search, extract,
                 agent, call, writers, tts, llm, unsaved>>

\* save()
Save(ios) ==
  /\ pc = "ready"
  /\ \E io \in ios : Install(SaveIndex(Store, io))
  /\ op' = "save"
  /\ outcome' = "ok"
  /\ raised' = FALSE
  /\ UNCHANGED <<pc, device, confUid, history, nAdded, sanIn, search, extract,
                 agent, call, writers, tts, llm, unsaved>>

\* The turns the callers of Spec pass to add_memory: the same text at two
\* times, another text from the other side, a whitespace-only text and an
\* empty one.
Turns ==
  {Record("human", Hi, ""), Record("human", Hi, "t1"), Record("ai", Yo, ""),
   Record("human", Blank, "t1"), Record("ai", <<>>, "")}

ScopeIds == {Char01, <<".", ".">>}

Next ==
  \/ Construct(ScopeIds, {"auto"}, LinuxSysEnvs)
  \/ LoadOrCreate
  \/ ImportHistory(IOsOf(device), MaxRecords)
  \/ AddMemoryCall(Turns, IOsOf(device), MaxRecords)
  \/ Save(IOsOf(device))

Spec == Init /\ [][Next]_vars

\* ------------------------------------------------- the periodic save

\* Timestamps of a conversation, in its order.
TsNames ==
  <<"t01", "t02", "t03", "t04", "t05", "t06", "t07", "t08", "t09", "t10",
    "t11", "t12", "t13", "t14">>

\* The turns the caller of SpecPeriodic passes to add_memory: the next turn of
\* the conversation, or its first turn again.
PeriodicTurns ==
  {Record("human", Hi, TsNames[Len(metadata) + 1])}
  \cup (IF metadata = <<>> THEN {} ELSE {Record("human", Hi, TsNames[1])})

\* In SpecPeriodic a write of the index file may fail; the metadata file is
\* written whenever it is reached.
PeriodicIOs == {io \in IOsOf("cpu") : io.wMeta = "ok"}

GoodSys ==
  [deps |-> TRUE, isWindows |-> FALSE, cudaAvailable |-> FALSE,
   hasGpu |-> FALSE, gpuAlloc |-> TRUE, embedder |-> TRUE]

NextPeriodic ==
  \/ Construct({Char01}, {"cpu"}, {GoodSys})
  \/ LoadOrCreate
  \/ ImportHistory(PeriodicIOs, MaxPeriodic)
  \/ AddMemoryCall(PeriodicTurns, PeriodicIOs, MaxPeriodic)
  \/ Save(PeriodicIOs)

\* A store on a cpu that lives through more than ten records, restarts
\* included.
SpecPeriodic == Init /\ [][NextPeriodic]_vars

\* ------------------------------------------------------- the history

\* The messages the conversation may hold: a turn of either side, one of them
\* without a timestamp key, a whitespace-only turn and an empty one.
Messages ==
  {[role |-> "human", content |-> Hi, timestamp |-> "t1"],
   [role |-> "ai", content |-> Yo, timestamp |-> Missing],
   [role |-> "human", content |-> Blank, timestamp |-> "t1"],
   [role |-> "ai", content |-> <<>>, timestamp |-> "t1"]}

RECURSIVE TotalMessages(_)
TotalMessages(hs) ==
  IF hs = <<>> THEN 0 ELSE Len(Head(hs)) + TotalMessages(Tail(hs))

\* The history collaborator starts a new history file.
CreateHistory ==
  /\ pc = "ready"
  /\ Len(history) < MaxHistories
  /\ history' = Append(history, <<>>)
  /\ op' = "history"
  /\ outcome' = "ok"
  /\ raised' = FALSE
  /\ saves' = 0
  /\ saveOk' = FALSE
  /\ appended' = 0
  /\ UNCHANGED <<pc, device, confUid, index, metadata, diskIndex, diskMeta,
                 nAdded, sanIn, search, extract,
                 agent, call, writers, tts, llm, unsaved>>

\* The history collaborator appends a message to the current history file.
StoreMessage ==
  /\ pc = "ready"
  /\ Len(history) > 0
  /\ TotalMessages(history) < MaxHist
  /\ \E msg \in Messages :
       history' = [history EXCEPT ![Len(history)] = Append(@, msg)]
  /\ op' = "history"
  /\ outcome' = "ok"
  /\ raised' = FALSE
  /\ saves' = 0
  /\ saveOk' = FALSE
  /\ appended' = 0
  /\ UNCHANGED <<pc, device, confUid, index, metadata, diskIndex, diskMeta,
                 nAdded, sanIn, search, extract,
                 agent, call, writers, tts, llm, unsaved>>

\* The turn the agent of SpecImport passes to add_memory while the
\* conversation runs: one that the history holds too.
LiveTurns == {Record("human", Hi, "t1")}

\* The write conditions of SpecImport: each file is replaced or kept; the
\* write of the metadata file is not reached when that of the index file
\* raised, so that its outcome is drawn only when the index file is replaced.
\* A file left unreadable acts on the next construction as a read that fails,
\* which LoadOrCreate draws from LoadEnvsOf.
ImportIOs ==
  {io \in IOsOf("cpu") : /\ io.wIndex # "corrupt" /\ io.wMeta # "corrupt"
                         /\ io.wIndex = "keep" => io.wMeta = "ok"}

NextImport ==
  \/ Construct({Char01}, {"cpu"}, {GoodSys})
  \/ LoadOrCreate
  \/ ImportHistory(ImportIOs, MaxRecords)
  \/ AddMemoryCall(LiveTurns, ImportIOs, MaxRecords)
  \/ CreateHistory
  \/ StoreMessage

\* A store on a cpu whose scope has a conversation history that grows between
\* constructions.
SpecImport == Init /\ [][NextImport]_vars

\* ------------------------------------------------------- the scope id

\* The characters scope ids are enumerated over: a letter, a digit, the two
\* marks the pattern names, a dot, a path separator, a space and a letter
\* outside ASCII.
ScopeAlphabet == {"a", "1", "_", "-", ".", "/", " ", "e_acute"}

ScopeInputs ==
  UNION {[1..n -> ScopeAlphabet] : n \in 0..MaxIdLen} \cup {Char01, DotDotEtc}

InitScope ==
  /\ NewStore
  /\ sanIn \in ScopeInputs
  /\ search = IdleSearch
  /\ agent = IdleAgent
  /\ call = IdleCall
  /\ writers = IdleWriters
  /\ tts = IdleTts
  /\ llm = IdleLlm
  /\ unsaved = 0
  /\ extract = IdleExtract

NextScope == Construct({sanIn}, {"cpu"}, {GoodSys})

\* Stores constructed for every scope id of ScopeInputs, on a machine where
\* nothing else fails.
SpecScope == InitScope /\ [][NextScope]_vars

\* ----------------------------------------------------------- the search

\* context_threshold = 0.3 and max_context_length = 800, the defaults of
\* __init__. Similarities and thresholds are counted in 1250ths.
SimScale == 1250
DefaultThreshold == 375
DefaultMaxLength == 800

\* k = min(10, len(self.metadata))
TopK == 10

\* The distance and the ordinal faiss reports in the places of a search for
\* which the index has no vector left.
FltMax == 10000
NoOrdinal == -1

Header ==
  <<"R", "e", "l", "e", "v", "a", "n", "t", " ", "p", "a", "s", "t", " ",
    "c", "o", "n", "v", "e", "r", "s", "a", "t", "i", "o", "n", " ",
    "c", "o", "n", "t", "e", "x", "t", ":", "\n">>

Min(a, b) == IF a <= b THEN a ELSE b

\* The metric of faiss.IndexFlatL2: the squared Euclidean distance, here in
\* 25ths (the vectors are in fifths).
L2Sqr(q, v) == (q[1] - v[1]) * (q[1] - v[1]) + (q[2] - v[2]) * (q[2] - v[2])

\* The orders in which a search may report the ordinals of rest, nearest
\* first; vectors at the same distance come in any order.
RECURSIVE Rankings(_, _, _)
Rankings(idx, q, rest) ==
  IF rest = {} THEN {<<>>}
  ELSE LET nearest == {i \in rest : \A j \in rest :
                          L2Sqr(q, idx[i]) <= L2Sqr(q, idx[j])}
       IN  UNION {{<<i>> \o t : t \in Rankings(idx, q, rest \ {i})} :
                  i \in nearest}

\* self.index.search(query_embedding, k) for one of the orders: k pairs of a
\* distance and a 0-based ordinal, padded when the index holds fewer than k
\* vectors.
IndexSearch(idx, q, k, ranking) ==
  [i \in 1..k |->
     IF i <= Len(ranking)
     THEN [distance |-> L2Sqr(q, idx[ranking[i]]), idx |-> ranking[i] - 1]
     ELSE [distance |-> FltMax, idx |-> NoOrdinal]]

\* similarity = 1.0 - (distance * distance / 2.0), in 1250ths, for a distance
\* in 25ths.
Similarity(distance) == SimScale - distance * distance

\* metadata[idx] of Python: a negative idx counts from the end.
PyIndex(seq, idx) == IF idx < 0 THEN seq[Len(seq) + idx + 1] ELSE seq[idx + 1]

RoleLabel(role) ==
  IF role = "human" THEN <<"U", "s", "e", "r">>
  ELSE <<"A", "s", "s", "i", "s", "t", "a", "n", "t">>

\* f"{role_label}: {content}"
MemoryText(meta) == RoleLabel(meta.role) \o <<":", " ">> \o meta.content

\* "\n".join(texts)
RECURSIVE Join(_)
Join(texts) ==
  IF texts = <<>> THEN <<>>
  ELSE IF Len(texts) = 1 THEN texts[1]
  ELSE texts[1] \o <<"\n">> \o Join(Tail(texts))

\* Mutant of the defaulting of threshold: the override is not read.
EffectiveThresholdDefaultOnly(threshold) == DefaultThreshold

\* threshold if threshold is not None else self.context_threshold
EffectiveThreshold(threshold) ==
  IF threshold.given THEN threshold.value ELSE DefaultThreshold

\* max_length if max_length is not None else self.max_context_length
EffectiveMaxLength(maxLength) ==
  IF maxLength.given THEN maxLength.value ELSE DefaultMaxLength

\* Mutant of the loop of search_relevant_context: an entry that does not fit
\* is passed over and the loop goes on.
RECURSIVE CollectSkipOverflow(_, _, _, _, _, _)
CollectSkipOverflow(results, i, meta, threshold, maxLength, acc) ==
  IF i > Len(results) THEN acc
  ELSE LET r == results[i]
           on == CollectSkipOverflow(results, i + 1, meta, threshold, maxLength, acc)
       IN  IF r.idx >= Len(meta) THEN on
           ELSE IF Similarity(r.distance) >= threshold
           THEN LET text == MemoryText(PyIndex(meta, r.idx))
                IN  IF acc.total + Len(text) + 2 > maxLength THEN on
                    ELSE CollectSkipOverflow(results, i + 1, meta, threshold, maxLength,
                           [memories |-> Append(acc.memories, text),
                            total |-> acc.total + Len(text) + 2,
                            picked |-> Append(acc.picked, i)])
           ELSE on

\* The loop of search_relevant_context over the results, from place i on. acc
\* holds relevant_memories, total_length and the places of the results taken.
RECURSIVE Collect(_, _, _, _, _, _)
Collect(results, i, meta, threshold, maxLength, acc) ==
  IF i > Len(results) THEN acc
  ELSE LET r == results[i]
           on == Collect(results, i + 1, meta, threshold, maxLength, acc)
       IN  IF r.idx >= Len(meta) THEN on
           ELSE IF Similarity(r.distance) >= threshold
           THEN LET text == MemoryText(PyIndex(meta, r.idx))
                IN  IF acc.total + Len(text) + 2 > maxLength THEN acc
                    ELSE Collect(results, i + 1, meta, threshold, maxLength,
                           [memories |-> Append(acc.memories, text),
                            total |-> acc.total + Len(text) + 2,
                            picked |-> Append(acc.picked, i)])
           ELSE on

\* What a call returns with the empty string: result is the returned text,
\* results what the index reported, sims the similarity computed for each
\* place of it, picked the places taken into the context.
NoResults ==
  [result |-> <<>>, results |-> <<>>, sims |-> <<>>, picked |-> <<>>,
   raised |-> FALSE]

Sims(results) == [i \in 1..Len(results) |-> Similarity(results[i].distance)]

\* Mutant of the try block: the header is returned when no memory was taken.
SearchTryAlwaysHeader(st, query, threshold, maxLength, fail, ranking) ==
  IF fail = "embed" THEN [NoResults EXCEPT !.raised = TRUE]
  ELSE LET k == Min(TopK, Len(st.metadata))
       IN  IF fail = "search" THEN [NoResults EXCEPT !.raised = TRUE]
           ELSE LET results == IndexSearch(st.index, Embed(query), k, ranking)
                    acc == Collect(results, 1, st.metadata, threshold, maxLength,
                             [memories |-> <<>>, total |-> 0, picked |-> <<>>])
                IN  [result |-> Header \o Join(acc.memories),
                     results |-> results, sims |-> Sims(results),
                     picked |-> acc.picked, raised |-> FALSE]

\* The try block of search_relevant_context (lines 337-391). fail names the
\* call that raises, ranking the order in which the index reports its vectors.
SearchTry(st, query, threshold, maxLength, fail, ranking) ==
  IF fail = "embed" THEN [NoResults EXCEPT !.raised = TRUE]
  ELSE LET k == Min(TopK, Len(st.metadata))
       IN  IF k = 0 THEN NoResults
           ELSE IF fail = "search" THEN [NoResults EXCEPT !.raised = TRUE]
           ELSE LET results == IndexSearch(st.index, Embed(query), k, ranking)
                    acc == Collect(results, 1, st.metadata, threshold, maxLength,
                             [memories |-> <<>>, total |-> 0, picked |-> <<>>])
                IN  IF acc.memories = <<>>
                    THEN [NoResults EXCEPT !.results = results,
                                           !.sims = Sims(results)]
                    ELSE [result |-> Header \o Join(acc.memories),
                          results |-> results, sims |-> Sims(results),
                          picked |-> acc.picked, raised |-> FALSE]

\* Mutant of search_relevant_context: what the try block raises reaches the
\* caller.
SearchReraise(st, query, threshold, maxLength, fail, ranking) ==
  IF query = <<>> \/ Strip(query) = <<>> THEN NoResults
  ELSE IF Len(st.metadata) = 0 THEN NoResults
  ELSE SearchTry(st, query, EffectiveThreshold(threshold),
                 EffectiveMaxLength(maxLength), fail, ranking)

\* search_relevant_context(query, threshold, max_length) (lines 314-395).
\* self.index is never None on a constructed store.
SearchRelevantContext(st, query, threshold, maxLength, fail, ranking) ==
  IF query = <<>> \/ Strip(query) = <<>> THEN NoResults
  ELSE IF Len(st.metadata) = 0 THEN NoResults
  ELSE LET r == SearchTry(st, query, EffectiveThreshold(threshold),
                          EffectiveMaxLength(maxLength), fail, ranking)
       IN  IF r.raised THEN NoResults ELSE r

SearchRecords ==
  {Record("human", Hi, "t1"), Record("ai", Yo, ""), Record("human", No, "t1"),
   Record("ai", <<"c">>, "t1")}

\* Record lists without a repeated record, of up to MaxSearchRecords records.
SmallMetas ==
  UNION {{m \in [1..n -> SearchRecords] : \A i, j \in 1..n : m[i] = m[j] => i = j} :
         n \in 0..MaxSearchRecords}

\* Eleven records whose vectors all differ: one more than a search reports.
BigMeta ==
  <<Record("human", Hi, "t1"), Record("ai", Yo, "t1"), Record("human", No, "t1"),
    Record("ai", <<"a">>, "t1"), Record("human", <<"b">>, "t1"),
    Record("ai", <<"c">>, "t1"), Record("human", <<"d">>, "t1"),
    Record("ai", <<"e">>, "t1"), Record("human", <<"f">>, "t1"),
    Record("ai", <<"g">>, "t1"), Record("human", <<"h">>, "t1")>>

\* The index add_memory builds for the records of m.
IndexOf(m) == [i \in 1..Len(m) |-> Embed(m[i].content)]

\* The stores that are searched: aligned ones, and the ones a reload of files
\* from a half-failed save leaves with a vector more or a vector less than
\* records.
SearchStores ==
  {[metadata |-> m, index |-> IndexOf(m)] : m \in SmallMetas \cup {BigMeta}}
  \cup {[metadata |-> m, index |-> Append(IndexOf(m), <<3, 4>>)] : m \in SmallMetas}
  \cup {[metadata |-> m, index |-> SubSeq(IndexOf(m), 1, Len(m) - 1)] :
        m \in SmallMetas \ {<<>>}}

Queries == {<<>>, Blank, Hi, Yo}
Thresholds == {NoneArg, Some(0), Some(1000), Some(-1250), Some(-10000)}
MaxLengths == {NoneArg, Some(0), Some(10), Some(25), Some(50)}
SearchFails == {"none", "embed", "search"}

InitSearch ==
  /\ \E st \in SearchStores : metadata = st.metadata /\ index = st.index
  /\ pc = "ready"
  /\ device = "cpu"
  /\ confUid = Char01
  /\ diskIndex = AbsentIndexFile
  /\ diskMeta = AbsentMetaFile
  /\ history = <<>>
  /\ op = "init"
  /\ outcome = "ok"
  /\ raised = FALSE
  /\ saves = 0
  /\ saveOk = FALSE
  /\ appended = 0
  /\ nAdded = 0
  /\ sanIn = <<>>
  /\ search = IdleSearch
  /\ agent = IdleAgent
  /\ call = IdleCall
  /\ writers = IdleWriters
  /\ tts = IdleTts
  /\ llm = IdleLlm
  /\ unsaved = 0
  /\ extract = IdleExtract

\* search_relevant_context(query, threshold, max_length) on the constructed
\* store.
SearchCall ==
  /\ pc = "ready"
  /\ \E query \in Queries, threshold \in Thresholds, maxLength \in MaxLengths,
        fail \in SearchFails :
       \E ranking \in Rankings(index, Embed(query), 1..Len(index)) :
          LET r == SearchRelevantContext(Store, query, threshold, maxLength,
                                         fail, ranking)
          IN  /\ search' = [query |-> query, threshold |-> threshold,
                            maxLength |-> maxLength, fail |-> fail,
                            results |-> r.results, sims |-> r.sims,
                            picked |-> r.picked, result |-> r.result]
              /\ raised' = r.raised
  /\ op' = "search"
  /\ outcome' = "ok"
  /\ saves' = 0
  /\ saveOk' = FALSE
  /\ appended' = 0
  /\ UNCHANGED <<pc, device, confUid, index, metadata, diskIndex, diskMeta,
                 history, nAdded, sanIn, extract,
                 agent, call, writers, tts, llm, unsaved>>

\* A search leaves the store as it was, so that one search of each store
\* shows all of them.
NextSearch == op = "init" /\ SearchCall

\* Searches of constructed stores.
SpecSearch == InitSearch /\ [][NextSearch]_vars

\* ------------------------------------------------- the memory extractor

\* JSON values as json.loads builds them. t names the type; n holds a number
\* in tenths or a bool as 0/1, s the characters of a string or of a key,
\* items the elements of a list or the key/value pairs of a dict.
JNum(n) == [t |-> "num", n |-> n, s |-> <<>>, items |-> <<>>]
JStr(s) == [t |-> "str", n |-> 0, s |-> s, items |-> <<>>]
JBool(b) == [t |-> "bool", n |-> IF b THEN 1 ELSE 0, s |-> <<>>, items |-> <<>>]
JNull == [t |-> "null", n |-> 0, s |-> <<>>, items |-> <<>>]
JNaN == [t |-> "nan", n |-> 0, s |-> <<>>, items |-> <<>>]
JArr(items) == [t |-> "arr", n |-> 0, s |-> <<>>, items |-> items]
JPair(k, v) == [t |-> "pair", n |-> 0, s |-> k, items |-> <<v>>]
JObj(pairs) == [t |-> "obj", n |-> 0, s |-> <<>>, items |-> pairs]

\* dict[key] = value: the value of a key that is present is replaced.
DictSet(pairs, k, v) ==
  IF \E i \in 1..Len(pairs) : pairs[i].s = k
  THEN [i \in 1..Len(pairs) |-> IF pairs[i].s = k THEN JPair(k, v) ELSE pairs[i]]
  ELSE Append(pairs, JPair(k, v))

\* key in dict, and dict.get(key, default)
DictHas(obj, k) == \E i \in 1..Len(obj.items) : obj.items[i].s = k
DictGet(obj, k, default) ==
  IF DictHas(obj, k)
  THEN obj.items[CHOOSE i \in 1..Len(obj.items) : obj.items[i].s = k].items[1]
  ELSE default

JsonSpace == {" ", "\n"}
DigitValue ==
  [c \in {"0", "1", "2", "3", "4", "5", "6", "7", "8", "9"} |->
     CASE c = "0" -> 0 [] c = "1" -> 1 [] c = "2" -> 2 [] c = "3" -> 3
       [] c = "4" -> 4 [] c = "5" -> 5 [] c = "6" -> 6 [] c = "7" -> 7
       [] c = "8" -> 8 [] c = "9" -> 9]

IsDigit(text, i) == i <= Len(text) /\ text[i] \in DOMAIN DigitValue

\* The first place from i on that holds no whitespace.
RECURSIVE SkipSpace(_, _)
SkipSpace(text, i) ==
  IF i <= Len(text) /\ text[i] \in JsonSpace THEN SkipSpace(text, i + 1) ELSE i

\* text[i..] starts with word.
StartsWith(text, i, word) ==
  /\ i + Len(word) - 1 <= Len(text)
  /\ SubSeq(text, i, i + Len(word) - 1) = word

DecodeError == [ok |-> FALSE, val |-> JNull, pos |-> 0]
Decoded(v, pos) == [ok |-> TRUE, val |-> v, pos |-> pos]

\* The place of the quote that closes the string opened before i, or 0.
RECURSIVE ClosingQuote(_, _)
ClosingQuote(text, i) ==
  IF i > Len(text) \/ text[i] = "\n" THEN 0
  ELSE IF text[i] = "\"" THEN i
  ELSE ClosingQuote(text, i + 1)

\* "abc" at place i: no escapes occur in the texts of the model.
ScanString(text, i) ==
  IF i <= Len(text) /\ text[i] = "\""
  THEN LET j == ClosingQuote(text, i + 1)
       IN  IF j = 0 THEN DecodeError
           ELSE Decoded(JStr(SubSeq(text, i + 1, j - 1)), j + 1)
  ELSE DecodeError

\* The digits from i on, as a number, and the place after them.
RECURSIVE ScanDigits(_, _, _)
ScanDigits(text, i, acc) ==
  IF IsDigit(text, i) THEN ScanDigits(text, i + 1, 10 * acc + DigitValue[text[i]])
  ELSE [n |-> acc, pos |-> i]

\* -?digits(.digit)? at place i, in tenths.
ScanNumber(text, i) ==
  LET neg == i <= Len(text) /\ text[i] = "-"
      j == IF neg THEN i + 1 ELSE i
      sign == IF neg THEN -1 ELSE 1
  IN  IF ~IsDigit(text, j) THEN DecodeError
      ELSE LET whole == ScanDigits(text, j, 0)
           IN  IF /\ whole.pos <= Len(text)
                  /\ text[whole.pos] = "."
                  /\ IsDigit(text, whole.pos + 1)
                  /\ ~IsDigit(text, whole.pos + 2)
               THEN Decoded(JNum(sign * (10 * whole.n + DigitValue[text[whole.pos + 1]])),
                            whole.pos + 2)
               ELSE Decoded(JNum(sign * 10 * whole.n), whole.pos)

RECURSIVE ParseValue(_, _)
RECURSIVE ParseMembers(_, _, _)
RECURSIVE ParseElements(_, _, _)

\* The members of a dict from the key at place i on, up to the closing brace.
ParseMembers(text, i, acc) ==
  LET k == ScanString(text, i)
  IN  IF ~k.ok THEN DecodeError
      ELSE LET j == SkipSpace(text, k.pos)
           IN  IF j > Len(text) \/ text[j] # ":" THEN DecodeError
               ELSE LET v == ParseValue(text, SkipSpace(text, j + 1))
                    IN  IF ~v.ok THEN DecodeError
                        ELSE LET m == SkipSpace(text, v.pos)
                                 pairs == DictSet(acc, k.val.s, v.val)
                             IN  IF m > Len(text) THEN DecodeError
                                 ELSE IF text[m] = ","
                                 THEN ParseMembers(text, SkipSpace(text, m + 1), pairs)
                                 ELSE IF text[m] = "}"
                                 THEN Decoded(JObj(pairs), m + 1)
                                 ELSE DecodeError

\* The elements of a list from the value at place i on, up to the closing
\* bracket.
ParseElements(text, i, acc) ==
  LET v == ParseValue(text, i)
  IN  IF ~v.ok THEN DecodeError
      ELSE LET m == SkipSpace(text, v.pos)
               items == Append(acc, v.val)
           IN  IF m > Len(text) THEN DecodeError
               ELSE IF text[m] = ","
               THEN ParseElements(text, SkipSpace(text, m + 1), items)
               ELSE IF text[m] = "]"
               THEN Decoded(JArr(items), m + 1)
               ELSE DecodeError

\* One JSON value at place i (the scanner of json.loads).
ParseValue(text, i) ==
  IF i > Len(text) THEN DecodeError
  ELSE IF text[i] = "\"" THEN ScanString(text, i)
  ELSE IF text[i] = "{"
  THEN LET j == SkipSpace(text, i + 1)
       IN  IF j <= Len(text) /\ text[j] = "}" THEN Decoded(JObj(<<>>), j + 1)
           ELSE ParseMembers(text, j, <<>>)
  ELSE IF text[i] = "["
  THEN LET j == SkipSpace(text, i + 1)
       IN  IF j <= Len(text) /\ text[j] = "]" THEN Decoded(JArr(<<>>), j + 1)
           ELSE ParseElements(text, j, <<>>)
  ELSE IF StartsWith(text, i, <<"t", "r", "u", "e">>) THEN Decoded(JBool(TRUE), i + 4)
  ELSE IF StartsWith(text, i, <<"f", "a", "l", "s", "e">>) THEN Decoded(JBool(FALSE), i + 5)
  ELSE IF StartsWith(text, i, <<"n", "u", "l", "l">>) THEN Decoded(JNull, i + 4)
  ELSE IF StartsWith(text, i, <<"N", "a", "N">>) THEN Decoded(JNaN, i + 3)
  ELSE ScanNumber(text, i)

\* json.loads(text): ok is FALSE where it raises JSONDecodeError.
JsonLoads(text) ==
  LET r == ParseValue(text, SkipSpace(text, 1))
  IN  IF r.ok /\ SkipSpace(text, r.pos) = Len(text) + 1 THEN r ELSE DecodeError

\* "bt" stands for the backtick character.
Fence == <<"bt", "bt", "bt">>
FenceJson == Fence \o <<"j", "s", "o", "n">>

\* The first place from i on that holds no character of Whitespace.
RECURSIVE SkipWhitespace(_, _)
SkipWhitespace(text, i) ==
  IF i <= Len(text) /\ text[i] \in Whitespace THEN SkipWhitespace(text, i + 1)
  ELSE i

\* text without the places for which Gone holds.
Without(text, Gone(_)) ==
  LET keep == SelectSeq([k \in 1..Len(text) |-> k], LAMBDA k : ~Gone(k))
  IN  [n \in 1..Len(keep) |-> text[keep[n]]]

\* The place where the run of c that reaches place i begins.
RunStart(text, i, c) ==
  CHOOSE r \in 1..i :
     /\ \A k \in r..i : text[k] = c
     /\ r = 1 \/ text[r - 1] # c

\* re.sub(r"```json\s*", "", text): two occurrences of the pattern never
\* overlap.
RemoveFenceJson(text) ==
  Without(text,
          LAMBDA k : \E i \in 1..k :
             /\ StartsWith(text, i, FenceJson)
             /\ k < SkipWhitespace(text, i + Len(FenceJson)))

\* re.sub(r"```\s*", "", text): in a run of backticks the matches are taken
\* from its left end, three backticks each.
RemoveFence(text) ==
  Without(text,
          LAMBDA k : \E i \in 1..k :
             /\ StartsWith(text, i, Fence)
             /\ (i - RunStart(text, i, "bt")) % 3 = 0
             /\ k < SkipWhitespace(text, i + Len(Fence)))

\* re.sub(r",\s*" + closer, closer, text): the comma and the whitespace after
\* it go, the closer stays.
RemoveCommaBefore(text, closer) ==
  Without(text,
          LAMBDA k : \E i \in 1..k :
             /\ text[i] = ","
             /\ LET j == SkipWhitespace(text, i + 1)
                IN  j <= Len(text) /\ text[j] = closer /\ k < j)

\* text.find(ch) and text.rfind(ch), 1-based; 0 when ch does not occur.
Find(text, ch) ==
  IF \E i \in 1..Len(text) : text[i] = ch
  THEN CHOOSE i \in 1..Len(text) : text[i] = ch /\ \A j \in 1..(i - 1) : text[j] # ch
  ELSE 0

RFind(text, ch) ==
  IF \E i \in 1..Len(text) : text[i] = ch
  THEN CHOOSE i \in 1..Len(text) :
         text[i] = ch /\ \A j \in (i + 1)..Len(text) : text[j] # ch
  ELSE 0

\* What _parse_json_response returns: ok is FALSE for None; loads counts the
\* calls of json.loads.
ParseFailed(loads) == [ok |-> FALSE, val |-> JNull, loads |-> loads]

\* _parse_json_response(text) (lines 124-163)
ParseJsonResponse(text) ==
  LET t == Strip(RemoveFence(RemoveFenceJson(text)))
      start == Find(t, "{")
      end == RFind(t, "}")
  IN  IF start = 0 \/ end = 0 \/ end <= start THEN ParseFailed(0)
      ELSE LET jsonStr == SubSeq(t, start, end)
               first == JsonLoads(jsonStr)
           IN  IF first.ok THEN [ok |-> TRUE, val |-> first.val, loads |-> 1]
               ELSE LET fixed == RemoveCommaBefore(
                                   RemoveCommaBefore(jsonStr, "}"), "]")
                        second == JsonLoads(fixed)
                    IN  IF second.ok
                        THEN [ok |-> TRUE, val |-> second.val, loads |-> 2]
                        ELSE ParseFailed(2)

\* ---- the replies of the language model

DigitChar == <<"0", "1", "2", "3", "4", "5", "6", "7", "8", "9">>

\* A number of less than ten in tenths, as the model writes it: 0.5, -1.0.
NumText(n) ==
  LET m == IF n < 0 THEN -n ELSE n
  IN  (IF n < 0 THEN <<"-">> ELSE <<>>)
        \o <<DigitChar[(m \div 10) + 1], ".", DigitChar[(m % 10) + 1]>>

RECURSIVE Render(_, _)
RECURSIVE RenderItems(_, _)

\* The items of a list or a dict, separated by ", ".
RenderItems(items, comma) ==
  IF items = <<>> THEN <<>>
  ELSE Render(items[1], comma)
         \o (IF Len(items) > 1 THEN <<",", " ">> \o RenderItems(Tail(items), comma)
             ELSE IF comma THEN <<",">> ELSE <<>>)

\* The text of a JSON value as json.dumps writes it; with comma, a trailing
\* comma stands before every closing brace or bracket of a non-empty dict or
\* list.
Render(v, comma) ==
  CASE v.t = "num" -> NumText(v.n)
    [] v.t = "str" -> <<"\"">> \o v.s \o <<"\"">>
    [] v.t = "bool" -> IF v.n = 1 THEN <<"t", "r", "u", "e">>
                       ELSE <<"f", "a", "l", "s", "e">>
    [] v.t = "null" -> <<"n", "u", "l", "l">>
    [] v.t = "nan" -> <<"N", "a", "N">>
    [] v.t = "pair" -> <<"\"">> \o v.s \o <<"\"", ":", " ">> \o Render(v.items[1], comma)
    [] v.t = "arr" -> <<"[">> \o RenderItems(v.items, comma) \o <<"]">>
    [] v.t = "obj" -> <<"{">> \o RenderItems(v.items, comma) \o <<"}">>

\* The reply a language model makes of a JSON text: bare, or in a fenced
\* code block.
Reply(jsonText, fenced) ==
  IF fenced THEN FenceJson \o <<"\n">> \o jsonText \o <<"\n">> \o Fence
  ELSE jsonText

KeyImportance == <<"i", "m", "p", "o", "r", "t", "a", "n", "c", "e">>
KeyMemories == <<"m", "e", "m", "o", "r", "i", "e", "s">>
KeySummary == <<"s", "u", "m", "m", "a", "r", "y">>
KeyTags == <<"t", "a", "g", "s">>

\* ---- extract_memories

\* A float: NaN, or a number in tenths.
Float(tenths) == [nan |-> FALSE, tenths |-> tenths]
NaN == [nan |-> TRUE, tenths |-> 0]

\* {"importance": 0.0, "memories": []}
DefaultResult == [importance |-> Float(0), memories |-> <<>>]

\* float(v): ok is FALSE where it raises ValueError or TypeError.
FloatOf(v) ==
  CASE v.t = "num" -> [ok |-> TRUE, f |-> Float(v.n)]
    [] v.t = "bool" -> [ok |-> TRUE, f |-> Float(10 * v.n)]
    [] v.t = "nan" -> [ok |-> TRUE, f |-> NaN]
    [] v.t = "str" ->
         LET t == Strip(v.s)
             r == ScanNumber(t, 1)
         IN  IF r.ok /\ r.pos = Len(t) + 1 THEN [ok |-> TRUE, f |-> Float(r.val.n)]
             ELSE IF t = <<"n", "a", "n">> THEN [ok |-> TRUE, f |-> NaN]
             ELSE [ok |-> FALSE, f |-> Float(0)]
    [] OTHER -> [ok |-> FALSE, f |-> Float(0)]

\* The truth value of what _parse_json_response returned: None and {} are
\* false.
Truthy(parsed) == parsed.ok /\ ~(parsed.val.t = "obj" /\ parsed.val.items = <<>>)

\* Mutant of extract_memories: the memories are returned as they came.
ValidateNoFilter(text, parsed) ==
  IF Strip(text) = <<>> THEN [raised |-> FALSE, result |-> DefaultResult]
  ELSE IF ~Truthy(parsed) THEN [raised |-> FALSE, result |-> DefaultResult]
  ELSE IF parsed.val.t # "obj" THEN [raised |-> FALSE, result |-> DefaultResult]
  ELSE LET importance == DictGet(parsed.val, KeyImportance, JNum(0))
           memories == DictGet(parsed.val, KeyMemories, JArr(<<>>))
       IN  IF memories.t # "arr" THEN [raised |-> FALSE, result |-> DefaultResult]
           ELSE LET f == FloatOf(importance)
                IN  IF ~f.ok THEN [raised |-> TRUE, result |-> DefaultResult]
                    ELSE [raised |-> FALSE,
                          result |-> [importance |-> f.f,
                                      memories |-> memories.items]]

\* extract_memories from the end of the stream on (lines 82-118): what it
\* returns, or that it raises.
Validate(text, parsed) ==
  IF Strip(text) = <<>> THEN [raised |-> FALSE, result |-> DefaultResult]
  ELSE IF ~Truthy(parsed) THEN [raised |-> FALSE, result |-> DefaultResult]
  ELSE IF parsed.val.t # "obj" THEN [raised |-> FALSE, result |-> DefaultResult]
  ELSE LET importance == DictGet(parsed.val, KeyImportance, JNum(0))
           memories == DictGet(parsed.val, KeyMemories, JArr(<<>>))
       IN  IF memories.t # "arr" THEN [raised |-> FALSE, result |-> DefaultResult]
           ELSE LET valid == SelectSeq(memories.items,
                               LAMBDA m : m.t = "obj" /\ DictHas(m, KeySummary))
                    f == FloatOf(importance)
                IN  IF ~f.ok THEN [raised |-> TRUE, result |-> DefaultResult]
                    ELSE [raised |-> FALSE,
                          result |-> [importance |-> f.f, memories |-> valid]]

\* Mutant of the except clause of extract_memories: it handles nothing.
ExceptNothing(error) == [raised |-> TRUE, result |-> DefaultResult]

\* except Exception (lines 120-122) for what the try block raised: an
\* "exception" is any Exception, "cancelled" the asyncio.CancelledError
\* thrown into the coroutine at its await, which is a BaseException and no
\* Exception.
ExceptException(error) ==
  IF error = "exception" THEN [raised |-> FALSE, result |-> DefaultResult]
  ELSE [raised |-> TRUE, result |-> DefaultResult]

\* ---- the extractions

WithImportance(v) ==
  JObj(<<JPair(KeyImportance, v), JPair(KeyMemories, JArr(<<>>))>>)

\* Importance 0.5 and three memories, of which the first alone is a dict with
\* a summary.
GoodObject ==
  JObj(<<JPair(KeyImportance, JNum(5)),
         JPair(KeyMemories,
               JArr(<<JObj(<<JPair(KeySummary, JStr(<<"a">>))>>),
                      JStr(<<"x">>),
                      JObj(<<JPair(KeyTags, JArr(<<>>))>>)>>))>>)

Sample(v, flaw) == [sent |-> v, text |-> Render(v, FALSE), flaw |-> flaw]
RawSample(text, flaw) == [sent |-> JNull, text |-> text, flaw |-> flaw]

\* What the language model answers. flaw names what is wrong with the answer
\* for extract_memories.
ReplySamples ==
  {Sample(GoodObject, "none"),
   [sent |-> GoodObject, text |-> Reply(Render(GoodObject, TRUE), TRUE),
    flaw |-> "none"],
   Sample(WithImportance(JNum(20)), "none"),
   Sample(WithImportance(JNum(-10)), "none"),
   Sample(WithImportance(JNaN), "none"),
   Sample(WithImportance(JStr(<<"0", ".", "5">>)), "none"),
   Sample(WithImportance(JBool(TRUE)), "none"),
   Sample(JObj(<<JPair(KeyMemories, JArr(<<>>))>>), "none"),
   Sample(WithImportance(JStr(Hi)), "importance"),
   Sample(WithImportance(JNull), "importance"),
   Sample(WithImportance(JArr(<<>>)), "importance"),
   Sample(JObj(<<JPair(KeyImportance, JNum(5)),
                 JPair(KeyMemories, JStr(<<"a">>))>>), "memories"),
   Sample(JObj(<<>>), "unparsable"),
   Sample(JArr(<<JNum(10)>>), "non-object"),
   RawSample(Hi, "unparsable"),
   RawSample(<<"{">> \o Hi \o <<"}">>, "unparsable"),
   RawSample(<<"{", "\"">> \o KeyImportance \o <<"\"", ":", " ">>, "unparsable"),
   RawSample(<<>>, "empty"),
   RawSample(Blank, "empty"),
   RawSample(<<"{", "\"">> \o Hi, "unparsable"),
   RawSample(Hi \o <<"}">>, "unparsable"),
   RawSample(<<"}", " ", "{">>, "unparsable"),
   Sample(JObj(<<JPair(KeyMemories,
                       JArr(<<JObj(<<JPair(KeySummary, JStr(<<"a">>))>>)>>))>>),
          "none"),
   Sample(JObj(<<JPair(KeyImportance, JNum(5))>>), "none"),
   Sample(JObj(<<JPair(KeyImportance, JNum(5)),
                 JPair(KeyMemories,
                       JArr(<<JObj(<<JPair(KeySummary, JStr(<<"a">>))>>),
                              JNum(10),
                              JObj(<<JPair(KeyTags, JArr(<<>>))>>),
                              JObj(<<JPair(KeySummary, JNull)>>),
                              JObj(<<JPair(KeyTags, JArr(<<>>)),
                                     JPair(KeySummary, JStr(<<"b">>))>>)>>))>>),
          "none")}

\* A chunk of the stream: a str, or an object that is none (a tool call),
\* with the text it holds.
StrChunk(text) == [str |-> TRUE, text |-> text]
ToolChunk == [str |-> FALSE, text |-> <<"x">>]

\* Mutant of the loop body: every chunk is appended.
AppendChunkAny(text, chunk) == text \o chunk.text

\* The body of the async for loop (lines 78-80): response_text after chunk.
AppendChunk(text, chunk) == IF chunk.str THEN text \o chunk.text ELSE text

\* The chunks in which a reply arrives: whole, in two halves, or after a
\* chunk that is no string.
Chunkings(text) ==
  {<<StrChunk(text)>>,
   <<StrChunk(SubSeq(text, 1, Len(text) \div 2)),
     StrChunk(SubSeq(text, (Len(text) \div 2) + 1, Len(text)))>>,
   <<ToolChunk, StrChunk(text)>>}

ExtractContents == {Hi, Blank, <<>>}

othersOfExtract ==
  <<pc, device, confUid, index, metadata, diskIndex, diskMeta, history,
    outcome, saves, saveOk, appended, nAdded, sanIn, search, agent, call, writers, tts, llm, unsaved>>

\* Mutant of extract_memories: the content is not tested before the language
\* model is called.
ExtractStartNoBlankCheck ==
  /\ extract.pc = "idle"
  /\ \E content \in ExtractContents :
       \E sample \in ReplySamples :
          \E chunks \in Chunkings(sample.text) :
             extract' = [IdleExtract EXCEPT !.pc = "streaming",
                                            !.calls = 1,
                                            !.content = content,
                                            !.sent = sample.sent,
                                            !.flaw = sample.flaw,
                                            !.chunks = chunks]
  /\ op' = "extract"
  /\ raised' = FALSE
  /\ UNCHANGED othersOfExtract

\* extract_memories(role, content) up to the call of the language model
\* (lines 54-77).
ExtractStart ==
  /\ extract.pc = "idle"
  /\ \E content \in ExtractContents :
       IF content = <<>> \/ Strip(content) = <<>>
       THEN extract' = [IdleExtract EXCEPT !.pc = "done", !.content = content,
                                          !.how = "returned"]
       ELSE \E sample \in ReplySamples :
              \E chunks \in Chunkings(sample.text) :
                 extract' = [IdleExtract EXCEPT !.pc = "streaming",
                                                !.calls = 1,
                                                !.content = content,
                                                !.sent = sample.sent,
                                                !.flaw = sample.flaw,
                                                !.chunks = chunks]
  /\ op' = "extract"
  /\ raised' = FALSE
  /\ UNCHANGED othersOfExtract

\* One round of the async for loop (lines 75-79).
StreamChunk ==
  /\ extract.pc = "streaming"
  /\ extract.chunks # <<>>
  /\ extract' = [extract EXCEPT
                   !.chunks = Tail(@),
                   !.text = AppendChunk(@, Head(extract.chunks))]
  /\ UNCHANGED <<op, raised>>
  /\ UNCHANGED othersOfExtract

\* The stream ends, and the async for loop with it; the response is parsed
\* (lines 75-87). For a response that is blank _parse_json_response is not
\* called, and what it would return is not read.
StreamEnd ==
  /\ extract.pc = "streaming"
  /\ extract.chunks = <<>>
  /\ extract' = [extract EXCEPT !.pc = "parsing",
                                !.parsed = ParseJsonResponse(extract.text)]
  /\ UNCHANGED <<op, raised>>
  /\ UNCHANGED othersOfExtract

\* What was parsed is checked and the call returns (lines 82-122).
ValidateReply ==
  /\ extract.pc = "parsing"
  /\ LET v == Validate(extract.text, extract.parsed)
         r == IF v.raised THEN ExceptException("exception") ELSE v
     IN  /\ extract' = [extract EXCEPT
                          !.pc = "done",
                          !.how = IF v.raised THEN "exception" ELSE "returned",
                          !.result = r.result]
         /\ raised' = r.raised
  /\ UNCHANGED op
  /\ UNCHANGED othersOfExtract

\* The language model call or its stream raises an Exception.
StreamRaise ==
  /\ extract.pc = "streaming"
  /\ LET r == ExceptException("exception")
     IN  /\ extract' = [extract EXCEPT !.pc = "done", !.flaw = "llm-raises",
                                       !.how = "exception", !.result = r.result]
         /\ raised' = r.raised
  /\ UNCHANGED op
  /\ UNCHANGED othersOfExtract

\* The caller cancels the task while it awaits the stream.
Cancel ==
  /\ extract.pc = "streaming"
  /\ LET r == ExceptException("cancelled")
     IN  /\ extract' = [extract EXCEPT !.pc = "done", !.how = "cancelled",
                                       !.result = r.result]
         /\ raised' = r.raised
  /\ UNCHANGED op
  /\ UNCHANGED othersOfExtract

NextExtract ==
  \/ ExtractStart
  \/ StreamChunk
  \/ StreamEnd
  \/ ValidateReply
  \/ StreamRaise
  \/ Cancel

\* One extraction, from the call to its end.
SpecExtract == Init /\ [][NextExtract]_vars

\* One extraction in which the code that follows the loop runs on: nothing is
\* awaited between the end of the stream and the return.
SpecExtractLive == SpecExtract /\ WF_vars(ValidateReply)

\* ---- the parsing of replies

ParseAlphabet == {"a", ",", "}", "]", " "}

\* Dicts without a backtick: one string value over ParseAlphabet, and dicts
\* with lists and dicts inside.
SmallObjects ==
  {JObj(<<JPair(<<"s">>, JStr(str))>>) :
     str \in UNION {[1..n -> ParseAlphabet] : n \in 0..MaxStrLen}}
  \cup {JObj(<<>>),
        JObj(<<JPair(<<"m">>, JArr(<<JNum(10), JNum(5)>>))>>),
        JObj(<<JPair(<<"m">>, JArr(<<JObj(<<JPair(<<"s">>, JStr(<<"a">>))>>)>>)),
               JPair(<<"k">>, JBool(FALSE))>>)}

InitParse ==
  /\ NewStore
  /\ sanIn = <<>>
  /\ search = IdleSearch
  /\ agent = IdleAgent
  /\ call = IdleCall
  /\ writers = IdleWriters
  /\ tts = IdleTts
  /\ llm = IdleLlm
  /\ unsaved = 0
  /\ \E obj \in SmallObjects, fenced \in BOOLEAN, comma \in BOOLEAN :
       extract = [IdleExtract EXCEPT !.pc = "reply", !.sent = obj,
                                     !.fenced = fenced, !.comma = comma,
                                     !.text = Reply(Render(obj, comma), fenced)]

\* _parse_json_response(response_text)
ParseCall ==
  /\ extract.pc = "reply"
  /\ extract' = [extract EXCEPT !.pc = "done", !.how = "returned",
                                !.parsed = ParseJsonResponse(extract.text)]
  /\ op' = "parse"
  /\ raised' = FALSE
  /\ UNCHANGED othersOfExtract

NextParse == ParseCall

\* Replies made of the dicts of SmallObjects, parsed.
SpecParse == InitParse /\ [][NextParse]_vars

\* ------------------------------------------------------ the watched calls

\* Linux with CUDA and a GPU build of faiss on which the setup succeeds.
CudaSys ==
  [deps |-> TRUE, isWindows |-> FALSE, cudaAvailable |-> TRUE,
   hasGpu |-> TRUE, gpuAlloc |-> TRUE, embedder |-> TRUE]

\* The turns the caller of SpecCalls passes to add_memory: one of either
\* side, a whitespace-only one and an empty one.
CallTurns ==
  {Record("human", Hi, ""), Record("ai", Yo, "t1"),
   Record("human", Blank, "t1"), Record("ai", <<>>, "")}

\* add_memory(conf_uid, role, content, timestamp) on the constructed store;
\* the caller keeps what it passed. Below SaveEvery records no save follows,
\* and the model stays below.
AddCall ==
  /\ pc = "ready"
  /\ \E t \in CallTurns, fail \in AddFails :
       LET r == AddMemory(Store, t.role, t.content, t.timestamp, fail, QuietIO)
       IN  /\ Len(r.st.metadata) <= MaxRecords
           /\ Len(r.st.index) <= MaxRecords
           /\ Install(r.st)
           /\ outcome' = r.outcome
           /\ raised' = r.raised
           /\ nAdded' = IF r.outcome = "stored" THEN nAdded + 1 ELSE nAdded
           /\ call' = [IdleCall EXCEPT !.turn = t, !.fail = fail]
  /\ op' = "add"
  /\ UNCHANGED <<pc, device, confUid, history, sanIn, search, extract, agent,
                 writers, tts, llm, unsaved>>

\* The conditions of SpecCalls: the GPU copy works or fails, each write
\* replaces its file or raises before touching it.
CallIOs(dev) ==
  {io \in IOsOf(dev) : "corrupt" \notin {io.wIndex, io.wDirect, io.wMeta}}

\* save() on the constructed store, under file-system and GPU conditions the
\* caller keeps.
SaveCall ==
  /\ pc = "ready"
  /\ \E io \in CallIOs(device) :
       /\ Install(SaveIndex(Store, io))
       /\ call' = [IdleCall EXCEPT !.io = io]
  /\ op' = "save"
  /\ outcome' = "ok"
  /\ raised' = FALSE
  /\ UNCHANGED <<pc, device, confUid, history, nAdded, sanIn, search, extract,
                 agent, writers, tts, llm, unsaved>>

NextCalls ==
  \/ Construct({Char01}, {"cpu", "cuda"}, {CudaSys})
  \/ LoadOrCreate
  \/ ImportHistory({QuietIO}, MaxRecords)
  \/ AddCall
  \/ SaveCall

\* A store, on a CPU or on a GPU, whose add_memory and save calls are watched,
\* restarts included.
SpecCalls == Init /\ [][NextCalls]_vars

\* A search leaves the store as it was, so that the calls of a behaviour end
\* with its first search.
NextAppend ==
  \/ op # "search" /\ AddMemoryCall(CallTurns, {QuietIO}, MaxRecords)
  \/ op # "search" /\ Save({QuietIO})
  \/ op # "search" /\ SearchCall

\* One constructed store on which add_memory, save and
\* search_relevant_context are called.
SpecAppend == Init /\ [][NextAppend]_vars

\* ------------------------------------------------------- the agent factory

\* The parameters RAGMemoryManager.__init__ takes besides self.
InitParams ==
  {"conf_uid", "embedding_model", "context_threshold", "max_context_length",
   "device"}

\* The keyword arguments create_agent constructs the RAGMemoryManager with.
FactoryKwargs ==
  {"conf_uid", "embedding_model", "context_threshold", "max_context_length",
   "device", "memory_extractor", "use_memory_filtering"}

\* create_memory_extractor(llm): a MemoryExtractor, or None when the prompt
\* cannot be loaded.
CreateMemoryExtractor(promptOk) == promptOk

\* conf_uid as a caller of create_agent passes it: None, or a str.
NoUid == [given |-> FALSE, value |-> <<>>]

\* basic_memory_settings.get("rag_use_memory_filtering", True)
FilteringSetting(filtering) == filtering # "off"

\* RAGMemoryManager(**kwargs): a keyword __init__ does not take raises
\* TypeError before its body runs; otherwise __init__ runs, here up to the end
\* of _load_or_create_index (line 164) and on a machine where the files can be
\* read. _load_existing_memories, which does not raise, is the step
\* ImportHistory.
CallInit(kwargs, st, conf_uid, dev, sys) ==
  IF ~(kwargs \subseteq InitParams)
  THEN [raised |-> TRUE, error |-> "TypeError", st |-> st]
  ELSE LET h == InitHead(conf_uid, dev, sys)
           st0 == [st EXCEPT !.device = h.device, !.index = <<>>,
                             !.metadata = <<>>]
           l == LoadOrCreateIndex(st0, [readIndex |-> TRUE, readMeta |-> TRUE,
                                        toGpuLoad |-> TRUE, toGpuCreate |-> TRUE])
       IN  IF h.raised THEN [raised |-> TRUE, error |-> "init", st |-> st]
           ELSE IF l.raised THEN [raised |-> TRUE, error |-> "init", st |-> st]
           ELSE [raised |-> FALSE, error |-> "none", st |-> l.st]

\* create_agent for a basic_memory_agent, from the RAG settings to the
\* RAGMemoryManager (lines 73-131): what it built.
CreateRagManager(a, st, sys) ==
  IF a.enable /\ a.confUid.given /\ a.confUid.value # <<>>
  THEN LET wanted == FilteringSetting(a.filtering)
           extractor == wanted /\ CreateMemoryExtractor(a.prompt)
           r == CallInit(FactoryKwargs, st, a.confUid.value, a.device, sys)
       IN  [agent |-> [a EXCEPT !.done = TRUE,
                                !.extractor = extractor,
                                !.manager = ~r.raised,
                                !.managerExtractor = ~r.raised /\ extractor,
                                !.error = r.error],
            st |-> r.st]
  ELSE [agent |-> [a EXCEPT !.done = TRUE], st |-> st]

FilteringSettings == {"absent", "on", "off"}
AgentUids == {NoUid, Some(<<>>), Some(Char01), Some(<<".", ".">>)}

\* AgentFactory.create_agent("basic_memory_agent", ...) with a usable language
\* model.
CreateAgent ==
  /\ pc \in {"ready", "failed"}
  /\ \E enable \in BOOLEAN, filtering \in FilteringSettings,
        uid \in AgentUids, prompt \in BOOLEAN, dev \in DeviceArgs :
       LET a == [IdleAgent EXCEPT !.enable = enable, !.filtering = filtering,
                                  !.confUid = uid, !.prompt = prompt,
                                  !.device = dev]
           r == CreateRagManager(a, Store, GoodSys)
       IN  /\ agent' = r.agent
           /\ pc' = IF r.agent.manager THEN "loaded" ELSE pc
           /\ confUid' = IF r.agent.manager THEN uid.value ELSE confUid
           /\ device' = r.st.device
           /\ Install(r.st)
  /\ op' = "agent"
  /\ outcome' = "ok"
  /\ raised' = FALSE
  /\ UNCHANGED <<history, nAdded, sanIn, search, extract, call, writers, tts,
                 llm, unsaved>>

NextAgent == CreateAgent

\* Agents created from every combination of the RAG settings.
SpecAgent == Init /\ [][NextAgent]_vars

\* ------------------------------------------------ concurrent add_memory
\* add_memory called from several threads on one store. The method takes no
\* lock, so another call's statements can run between any two of its own:
\* the checks, index.add, metadata.append and the periodic save are steps.
MaxRaceRecords == 3

RaceTurns == {Record("human", Hi, ""), Record("ai", Yo, "t1"),
              Record("human", Blank, "")}

InFlight == Cardinality({w \in Writers : writers[w].pc # "idle"})

othersOfRace ==
  <<pc, device, confUid, history, sanIn, search, extract, agent, call, tts, llm,
    unsaved>>

\* if not content.strip(): return; if self._memory_exists(...): return
AddCheck(w) ==
  /\ pc = "ready"
  /\ writers[w].pc = "idle"
  /\ Len(metadata) + InFlight < MaxRaceRecords
  /\ \E t \in RaceTurns :
       LET blank == t.content = <<>> \/ Strip(t.content) = <<>>
           dup == MemoryExists(metadata, t.content, t.role, t.timestamp)
       IN  /\ writers' = [writers EXCEPT
                           ![w] = [pc |-> IF blank \/ dup THEN "idle" ELSE "checked",
                                   turn |-> t]]
           /\ outcome' = IF blank THEN "blank"
                          ELSE IF dup THEN "duplicate" ELSE "checked"
  /\ op' = "add"
  /\ UNCHANGED <<raised, nAdded>>
  /\ UNCHANGED storeVars
  /\ UNCHANGED othersOfRace

\* embedding = self.embedder.encode(...); self.index.add(embedding); either
\* may raise, and the except clause logs and returns
AddIndex(w) ==
  /\ writers[w].pc = "checked"
  /\ \E fail \in AddFails :
       IF fail = "none"
       THEN /\ index' = Append(index, Embed(writers[w].turn.content))
            /\ writers' = [writers EXCEPT ![w].pc = "indexed"]
            /\ outcome' = "indexed"
       ELSE /\ index' = index
            /\ writers' = [writers EXCEPT ![w].pc = "idle"]
            /\ outcome' = "dropped"
  /\ UNCHANGED <<metadata, diskIndex, diskMeta, saves, saveOk, appended>>
  /\ UNCHANGED <<op, raised, nAdded>>
  /\ UNCHANGED othersOfRace

\* self.metadata.append({...})
AddAppend(w) ==
  /\ writers[w].pc = "indexed"
  /\ metadata' = Append(metadata, writers[w].turn)
  /\ appended' = appended + 1
  /\ writers' = [writers EXCEPT ![w].pc = "appended"]
  /\ outcome' = "appended"
  /\ UNCHANGED <<index, diskIndex, diskMeta, saves, saveOk>>
  /\ UNCHANGED <<op, raised, nAdded>>
  /\ UNCHANGED othersOfRace

\* if len(self.metadata) % 10 == 0: self._save_index()
AddPeriodicSave(w) ==
  /\ writers[w].pc = "appended"
  /\ IF Len(metadata) % SaveEvery = 0
     THEN Install(SaveIndex(Store, QuietIO))
     ELSE UNCHANGED storeVars
  /\ writers' = [writers EXCEPT ![w].pc = "idle"]
  /\ outcome' = "stored"
  /\ nAdded' = nAdded + 1
  /\ UNCHANGED <<op, raised>>
  /\ UNCHANGED othersOfRace

NextRace ==
  \/ \E w \in Writers : AddCheck(w)
  \/ \E w \in Writers : AddIndex(w)
  \/ \E w \in Writers : AddAppend(w)
  \/ \E w \in Writers : AddPeriodicSave(w)

SpecRace == Init /\ [][NextRace]_vars

\* ------------------------------------------------- the device of a store
\* RAGMemoryManager(conf_uid, device=...) up to self.metadata = [] (line 161)
\* on any machine and with any device argument, both of which the caller
\* keeps.
ConstructOn ==
  /\ pc \in {"ready", "failed"}
  /\ \E dev \in DeviceArgs, sys \in SysEnvs :
       LET r == InitHead(Char01, dev, sys)
       IN  /\ pc' = IF r.raised THEN "failed" ELSE "constructed"
           /\ device' = IF r.raised THEN "cpu" ELSE r.device
           /\ confUid' = IF r.raised THEN <<>> ELSE r.confUid
           /\ raised' = r.raised
           /\ call' = [device |-> dev, sys |-> sys]
  /\ index' = <<>>
  /\ metadata' = <<>>
  /\ op' = "construct"
  /\ outcome' = "ok"
  /\ saves' = 0
  /\ saveOk' = FALSE
  /\ appended' = 0
  /\ nAdded' = 0
  /\ UNCHANGED <<diskIndex, diskMeta, history, sanIn, search, extract,
                 agent, writers, tts, llm, unsaved>>

NextDevice ==
  \/ ConstructOn
  \/ LoadOrCreate
  \/ ImportHistory({QuietIO}, MaxRecords)

SpecDevice == Init /\ [][NextDevice]_vars

\* ------------------------------------------- what a crash would lose
\* The store of SpecPeriodic, with the records counted that were appended
\* since _save_index last ran. The scope's history holds no message or one.
CrashHistories ==
  {<<>>, << <<[role |-> "human", content |-> Hi, timestamp |-> "t1"]>> >>}

InitCrash ==
  /\ pc = "ready"
  /\ device = "cpu"
  /\ confUid = Char01
  /\ index = <<>>
  /\ metadata = <<>>
  /\ diskIndex = AbsentIndexFile
  /\ diskMeta = AbsentMetaFile
  /\ history \in CrashHistories
  /\ op = "init"
  /\ outcome = "ok"
  /\ raised = FALSE
  /\ saves = 0
  /\ saveOk = FALSE
  /\ appended = 0
  /\ nAdded = 0
  /\ sanIn = <<>>
  /\ search = IdleSearch
  /\ agent = IdleAgent
  /\ call = IdleCall
  /\ writers = IdleWriters
  /\ tts = IdleTts
  /\ llm = IdleLlm
  /\ unsaved = 0
  /\ extract = IdleExtract

othersOfCrash ==
  <<history, sanIn, search, extract, agent, call, writers, tts, llm>>

\* The process ends and a new one constructs the store: __init__ up to
\* self.metadata = [] (line 161). What the old process held in memory is gone.
Restart ==
  /\ pc \in {"ready", "failed"}
  /\ LET r == InitHead(Char01, "cpu", GoodSys)
     IN  /\ pc' = IF r.raised THEN "failed" ELSE "constructed"
         /\ device' = IF r.raised THEN "cpu" ELSE r.device
         /\ confUid' = IF r.raised THEN <<>> ELSE r.confUid
         /\ raised' = r.raised
  /\ index' = <<>>
  /\ metadata' = <<>>
  /\ unsaved' = 0
  /\ op' = "construct"
  /\ outcome' = "ok"
  /\ saves' = 0
  /\ saveOk' = FALSE
  /\ appended' = 0
  /\ nAdded' = 0
  /\ UNCHANGED <<diskIndex, diskMeta>>
  /\ UNCHANGED othersOfCrash

\* self._load_existing_memories() (line 167) on a history of at most one
\* message: the one add_memory call comes before any save.
ImportCounted ==
  /\ pc = "loaded"
  /\ \E failAt \in 0..(Len(history) + 1), addFails \in SUBSET Places(history),
        io \in {QuietIO} :
       LET env == [failAt |-> failAt, addFails |-> addFails, io |-> io]
           r == LoadExistingMemories(Store, history, env)
       IN  /\ Len(r.st.index) <= MaxPeriodic
           /\ Install(r.st)
           /\ outcome' = r.outcome
           /\ unsaved' = IF r.st.saves > 0 THEN 0 ELSE unsaved + r.st.appended
  /\ pc' = "ready"
  /\ op' = "import"
  /\ raised' = FALSE
  /\ UNCHANGED <<device, confUid, nAdded>>
  /\ UNCHANGED othersOfCrash

\* add_memory: the periodic save is its last statement.
AddCounted ==
  /\ pc = "ready"
  /\ \E t \in PeriodicTurns, fail \in AddFails,
        io \in (IF (Len(metadata) + 1) % SaveEvery = 0
                THEN PeriodicIOs ELSE {QuietIO}) :
       LET r == AddMemory(Store, t.role, t.content, t.timestamp, fail, io)
       IN  /\ Len(r.st.metadata) <= MaxPeriodic
           /\ Len(r.st.index) <= MaxPeriodic
           /\ Install(r.st)
           /\ outcome' = r.outcome
           /\ raised' = r.raised
           /\ nAdded' = IF r.outcome = "stored" THEN nAdded + 1 ELSE nAdded
           /\ unsaved' = IF r.st.saves > 0 THEN 0 ELSE unsaved + r.st.appended
  /\ op' = "add"
  /\ UNCHANGED <<pc, device, confUid>>
  /\ UNCHANGED othersOfCrash

\* save()
SaveCounted ==
  /\ pc = "ready"
  /\ \E io \in {QuietIO} : Install(SaveIndex(Store, io))
  /\ unsaved' = IF metadata = <<>> THEN unsaved ELSE 0
  /\ op' = "save"
  /\ outcome' = "ok"
  /\ raised' = FALSE
  /\ UNCHANGED <<pc, device, confUid, nAdded>>
  /\ UNCHANGED othersOfCrash

NextCrash ==
  \/ Restart
  \/ LoadOrCreate
  \/ ImportCounted
  \/ AddCounted
  \/ SaveCounted

SpecCrash == InitCrash /\ [][NextCrash]_vars

\* ------------------------------------------- the LLM of the agent
\* create_agent for basic_memory_agent up to the LLM (lines 41-63); the RAG
\* manager that the rest of the branch builds from the settings and the
\* keyword arguments is CreateAgent.
MaxCreates == 2

\* The keys an llm_config holds besides interrupt_method.
LlmKeys == {"model", "base_url", "api_key"}

\* llm_configs[provider]: a dict with or without interrupt_method and with
\* any of the other keys, or no entry.
LlmConfigs ==
  {NoConfig} \cup
  [given : {TRUE}, interrupt : {"absent", "system", "user"},
   rest : SUBSET LlmKeys]

\* llm_config.pop("interrupt_method", "user")
PopInterruptMethod(config) ==
  [value |-> IF config.interrupt = "absent" THEN "user" ELSE config.interrupt,
   config |-> [config EXCEPT !.interrupt = "absent"]]

\* Lines 41-63 of create_agent. It returns how the call ended, what the LLM
\* and the agent were made with, and llm_configs[provider] as the call left
\* it. None has no pop; an empty dict is falsy.
CreateLlm(provider, config) ==
  IF provider = ""
  THEN [use |-> [NoUse EXCEPT !.error = "ValueError: LLM provider not specified"],
        config |-> config]
  ELSE IF ~config.given
  THEN [use |-> [NoUse EXCEPT !.error = "AttributeError"], config |-> config]
  ELSE LET popped == PopInterruptMethod(config)
       IN  IF popped.config.rest = {}
           THEN [use |-> [NoUse EXCEPT
                            !.error = "ValueError: Configuration not found"],
                 config |-> popped.config]
           ELSE [use |-> [error |-> "none", interrupt |-> popped.value,
                          kwargs |-> popped.config.rest],
                 config |-> popped.config]

othersOfLlm ==
  <<pc, device, confUid, index, metadata, diskIndex, diskMeta, history,
    outcome, saves, saveOk, appended, nAdded, sanIn, search, extract, agent,
    call, writers, tts, unsaved>>

\* The caller builds agent_settings and llm_configs.
HoldConfigs ==
  /\ ~llm.held
  /\ \E provider \in {"", "p"}, config \in LlmConfigs :
       llm' = [IdleLlm EXCEPT !.held = TRUE, !.provider = provider,
                              !.config = config, !.orig = config]
  /\ op' = "configs"
  /\ raised' = FALSE
  /\ UNCHANGED othersOfLlm

\* create_agent("basic_memory_agent", agent_settings, llm_configs, ...) with
\* the objects the caller holds.
CreateAgentLlm ==
  /\ llm.held
  /\ llm.calls < MaxCreates
  /\ LET r == CreateLlm(llm.provider, llm.config)
     IN  /\ llm' = [llm EXCEPT !.config = r.config,
                               !.calls = @ + 1,
                               !.first = IF llm.calls = 0 THEN r.use ELSE @,
                               !.last = r.use]
         /\ raised' = (r.use.error # "none")
  /\ op' = "create_agent"
  /\ UNCHANGED othersOfLlm

NextLlm ==
  \/ HoldConfigs
  \/ CreateAgentLlm

SpecLlm == Init /\ [][NextLlm]_vars

\* ------------------------------------------------ the TTS preprocessor
MaxTextLen == 5

\* re.sub(r"\s+", " ", text), from character i on: every run of whitespace
\* becomes one space.
RECURSIVE CollapseFrom(_, _)
CollapseFrom(text, i) ==
  IF i > Len(text) THEN <<>>
  ELSE IF text[i] \notin Whitespace THEN <<text[i]>> \o CollapseFrom(text, i + 1)
  ELSE IF i > 1 /\ text[i - 1] \in Whitespace THEN CollapseFrom(text, i + 1)
  ELSE <<" ">> \o CollapseFrom(text, i + 1)

\* re.sub(r"\s+", " ", text).strip()
CleanSpaces(text) == Strip(CollapseFrom(text, 1))

\* Mutant of the loop of _filter_nested: a right symbol lowers the depth
\* whatever it is.
RECURSIVE NestedLoopUnguarded(_, _, _, _, _)
NestedLoopUnguarded(text, i, depth, left, right) ==
  IF i > Len(text) THEN <<>>
  ELSE IF text[i] = left
  THEN NestedLoopUnguarded(text, i + 1, depth + 1, left, right)
  ELSE IF text[i] = right
  THEN NestedLoopUnguarded(text, i + 1, depth - 1, left, right)
  ELSE (IF depth = 0 THEN <<text[i]>> ELSE <<>>)
       \o NestedLoopUnguarded(text, i + 1, depth, left, right)

\* Mutant of _filter_nested.
FilterNestedUnguarded(text, left, right) ==
  IF text = <<>> THEN text
  ELSE CleanSpaces(NestedLoopUnguarded(text, 1, 0, left, right))

\* The loop of _filter_nested from character i on at the given depth: what
\* it appends to result.
RECURSIVE NestedLoop(_, _, _, _, _)
NestedLoop(text, i, depth, left, right) ==
  IF i > Len(text) THEN <<>>
  ELSE IF text[i] = left
  THEN NestedLoop(text, i + 1, depth + 1, left, right)
  ELSE IF text[i] = right
  THEN NestedLoop(text, i + 1, IF depth > 0 THEN depth - 1 ELSE depth,
                  left, right)
  ELSE (IF depth = 0 THEN <<text[i]>> ELSE <<>>)
       \o NestedLoop(text, i + 1, depth, left, right)

\* _filter_nested; the text of the model is always a str.
FilterNested(text, left, right) ==
  IF text = <<>> THEN text
  ELSE CleanSpaces(NestedLoop(text, 1, 0, left, right))

FilterBrackets(text) == FilterNested(text, "[", "]")
FilterParentheses(text) == FilterNested(text, "(", ")")
FilterAngleBrackets(text) == FilterNested(text, "<", ">")

\* The symbols of the three nested filters.
Symbols ==
  [filter_brackets |-> <<"[", "]">>, filter_parentheses |-> <<"(", ")">>,
   filter_angle_brackets |-> <<"<", ">">>]

NestedFilters == DOMAIN Symbols

TextsOver(alphabet) == UNION {[1..n -> alphabet] : n \in 0..MaxTextLen}

\* The whitespace of the texts each filter is called with.
Blanks ==
  [filter_brackets |-> " ", filter_parentheses |-> "\n",
   filter_angle_brackets |-> " "]

\* The texts the nested filters are called with: a letter, a whitespace
\* character and the two symbols of the filter.
InitNested ==
  /\ InitButTts
  /\ \E fn \in NestedFilters :
       \E text \in TextsOver({"a", Blanks[fn], Symbols[fn][1], Symbols[fn][2]}) :
          tts = [IdleTts EXCEPT !.fn = fn, !.text = text]

othersOfTts ==
  <<pc, device, confUid, index, metadata, diskIndex, diskMeta, history,
    outcome, saves, saveOk, appended, nAdded, sanIn, search, extract, agent,
    call, writers, llm, unsaved>>

\* filter_brackets(text), filter_parentheses(text), filter_angle_brackets(text)
NestedCall ==
  /\ ~tts.done
  /\ tts.fn \in NestedFilters
  /\ tts' = [tts EXCEPT
              !.done = TRUE,
              !.ran = <<tts.fn>>,
              !.result = IF tts.fn = "filter_brackets"
                         THEN FilterBrackets(tts.text)
                         ELSE IF tts.fn = "filter_parentheses"
                         THEN FilterParentheses(tts.text)
                         ELSE FilterAngleBrackets(tts.text)]
  /\ op' = "tts"
  /\ raised' = FALSE
  /\ UNCHANGED othersOfTts

NextNested == NestedCall

SpecNested == InitNested /\ [][NextNested]_vars

\* ------------------------------------------------- the forbidden words
MaxWords == 2

\* word is in text at position i.
MatchesAt(text, word, i) ==
  /\ i + Len(word) - 1 <= Len(text)
  /\ SubSeq(text, i, i + Len(word) - 1) = word

\* re.sub(re.escape(word), replacement, text) from character i on, for a
\* word that is not empty and a replacement without a backslash: the matches
\* are found from the left and do not overlap, and what was put in is not
\* searched again.
RECURSIVE ReSubFrom(_, _, _, _)
ReSubFrom(text, word, replacement, i) ==
  IF i > Len(text) THEN <<>>
  ELSE IF MatchesAt(text, word, i)
  THEN replacement \o ReSubFrom(text, word, replacement, i + Len(word))
  ELSE <<text[i]>> \o ReSubFrom(text, word, replacement, i + 1)

\* The loop of filter_forbidden_words from word w on.
RECURSIVE ForbiddenLoop(_, _, _, _)
ForbiddenLoop(text, words, replacement, w) ==
  IF w > Len(words) THEN text
  ELSE IF words[w] = <<>>
  THEN ForbiddenLoop(text, words, replacement, w + 1)
  ELSE ForbiddenLoop(ReSubFrom(text, words[w], replacement, 1), words,
                     replacement, w + 1)

\* filter_forbidden_words
FilterForbiddenWords(text, words, replacement) ==
  IF text = <<>> \/ words = <<>> THEN text
  ELSE ForbiddenLoop(text, words, replacement, 1)

\* The words a list may hold: the empty word, two letters, one letter.
WordSamples == {<<>>, <<"a", "b">>, <<"b">>}

WordLists == UNION {[1..n -> WordSamples] : n \in 0..MaxWords}

\* The replacements: none, a character of its own, the default one, and one
\* that is a listed word.
Replacements ==
  {<<>>, <<"x">>,
   <<"[", "c", "e", "n", "s", "o", "r", "e", "d", "]">>, <<"a", "b">>}

InitForbidden ==
  /\ InitButTts
  /\ \E text \in TextsOver({"a", "b"}), words \in WordLists,
        replacement \in Replacements :
       tts = [IdleTts EXCEPT !.fn = "filter_forbidden_words", !.text = text,
                             !.words = words, !.replacement = replacement]

\* filter_forbidden_words(text, forbidden_words, replacement)
ForbiddenCall ==
  /\ ~tts.done
  /\ tts.fn = "filter_forbidden_words"
  /\ tts' = [tts EXCEPT
              !.done = TRUE,
              !.ran = <<tts.fn>>,
              !.result = FilterForbiddenWords(tts.text, tts.words,
                                              tts.replacement)]
  /\ op' = "tts"
  /\ raised' = FALSE
  /\ UNCHANGED othersOfTts

NextForbidden == ForbiddenCall

SpecForbidden == InitForbidden /\ [][NextForbidden]_vars

\* ------------------------------------------------------- tts_filter
\* The last star of the run of stars that starts at i.
RECURSIVE RunEnd(_, _)
RunEnd(text, i) ==
  IF i < Len(text) /\ text[i + 1] = "*" THEN RunEnd(text, i + 1) ELSE i

\* The first character from i on that the middle of the pattern cannot
\* take, a star or a newline, or the end of the text.
RECURSIVE MiddleEnd(_, _)
MiddleEnd(text, i) ==
  IF i > Len(text) \/ text[i] \in {"*", "\n"} THEN i
  ELSE MiddleEnd(text, i + 1)

\* re.sub(r"\*{1,}((?!\*).)*?\*{1,}", "", text) from character i on. A run of
\* stars, what follows it on the line and the next run of stars are one
\* match; a run of two or more stars that no star follows on its line is a
\* match by itself; a single star that no star follows on its line stays.
RECURSIVE AsterisksFrom(_, _)
AsterisksFrom(text, i) ==
  IF i > Len(text) THEN <<>>
  ELSE IF text[i] # "*" THEN <<text[i]>> \o AsterisksFrom(text, i + 1)
  ELSE LET last == RunEnd(text, i)
           stop == MiddleEnd(text, last + 1)
       IN  IF stop <= Len(text) /\ text[stop] = "*"
           THEN AsterisksFrom(text, RunEnd(text, stop) + 1)
           ELSE IF last > i THEN AsterisksFrom(text, last + 1)
           ELSE <<"*">> \o AsterisksFrom(text, i + 1)

\* filter_asterisks
FilterAsterisks(text) == CleanSpaces(AsterisksFrom(text, 1))

\* unicodedata.category(char)[0] for the characters of the model; "tm_sign"
\* stands for U+2122.
CharCategory(ch) ==
  IF ch \in {"a", "b", "c", "d", "x", "T", "M"} THEN "L"
  ELSE IF ch \in Digits THEN "N"
  ELSE IF ch \in {"*", "[", "]", "(", ")", "#", "!"} THEN "P"
  ELSE IF ch = " " THEN "Z"
  ELSE IF ch = "\n" THEN "C"
  ELSE "S"

\* unicodedata.normalize("NFKC", char): U+2122 becomes the letters TM, the
\* other characters of the model stay.
Nfkc(ch) == IF ch = "tm_sign" THEN <<"T", "M">> ELSE <<ch>>

RECURSIVE NormalizeFrom(_, _)
NormalizeFrom(text, i) ==
  IF i > Len(text) THEN <<>>
  ELSE Nfkc(text[i]) \o NormalizeFrom(text, i + 1)

\* remove_special_characters; char.isspace() holds for the whitespace of the
\* model.
RemoveSpecialCharacters(text) ==
  SelectSeq(NormalizeFrom(text, 1),
            LAMBDA ch : CharCategory(ch) \in {"L", "N", "P"} \/ ch \in Whitespace)

\* The stages of tts_filter in the order of its if statements (lines 40-91).
Stages ==
  <<"asterisks", "brackets", "parentheses", "angle_brackets", "special_char",
    "forbidden_words", "translate">>

\* The condition of the if statement of a stage. c: the arguments (flags,
\* words, replacement) and what the call meets (fails, translation).
StageOn(stage, c) ==
  IF stage = "forbidden_words"
  THEN stage \in c.flags /\ c.words # <<>>
  ELSE stage \in c.flags

\* The body of the try block of a stage.
StageApply(stage, text, c) ==
  IF stage = "asterisks" THEN FilterAsterisks(text)
  ELSE IF stage = "brackets" THEN FilterBrackets(text)
  ELSE IF stage = "parentheses" THEN FilterParentheses(text)
  ELSE IF stage = "angle_brackets" THEN FilterAngleBrackets(text)
  ELSE IF stage = "special_char" THEN RemoveSpecialCharacters(text)
  ELSE IF stage = "forbidden_words"
  THEN FilterForbiddenWords(text, c.words, c.replacement)
  ELSE c.translation

\* One if statement of tts_filter: the stage is skipped, or its function is
\* called and the text is assigned unless the function raised.
StageStep(stage, t, c) ==
  IF ~StageOn(stage, c) THEN t
  ELSE [text |-> IF stage \in c.fails THEN t.text ELSE StageApply(stage, t.text, c),
        ran |-> Append(t.ran, stage),
        sent |-> IF stage = "translate" THEN t.text ELSE t.sent,
        stopped |-> FALSE]

\* Mutant of an if statement of tts_filter: a stage that raised ends the
\* filter.
StageStepStops(stage, t, c) ==
  IF t.stopped \/ ~StageOn(stage, c) THEN t
  ELSE [text |-> IF stage \in c.fails THEN t.text ELSE StageApply(stage, t.text, c),
        ran |-> Append(t.ran, stage),
        sent |-> IF stage = "translate" THEN t.text ELSE t.sent,
        stopped |-> stage \in c.fails]

\* Mutant of tts_filter.
TtsFilterStops(text, c) ==
  LET t0 == [text |-> text, ran |-> <<>>, sent |-> <<>>, stopped |-> FALSE]
      t1 == StageStepStops("asterisks", t0, c)
      t2 == StageStepStops("brackets", t1, c)
      t3 == StageStepStops("parentheses", t2, c)
      t4 == StageStepStops("angle_brackets", t3, c)
      t5 == StageStepStops("special_char", t4, c)
      t6 == StageStepStops("forbidden_words", t5, c)
  IN  StageStepStops("translate", t6, c)

\* tts_filter
TtsFilter(text, c) ==
  LET t0 == [text |-> text, ran |-> <<>>, sent |-> <<>>, stopped |-> FALSE]
      t1 == StageStep("asterisks", t0, c)
      t2 == StageStep("brackets", t1, c)
      t3 == StageStep("parentheses", t2, c)
      t4 == StageStep("angle_brackets", t3, c)
      t5 == StageStep("special_char", t4, c)
      t6 == StageStep("forbidden_words", t5, c)
  IN  StageStep("translate", t6, c)

\* The texts tts_filter is called with: one that every stage changes, one
\* with stars only, one with the sign that normalization rewrites, a plain
\* one and the empty one.
TtsTexts ==
  {<<"*", "a", "*", "[", "b", "]", "(", "c", ")", "<", "d", ">", "+", "x">>,
   <<"*", "*", " ", "x">>,
   <<"tm_sign", "<", "x">>,
   <<"a">>,
   <<>>}

StageSets == SUBSET {Stages[k] : k \in 1..Len(Stages)}

InitTts ==
  /\ InitButTts
  /\ \E text \in TtsTexts, flags \in StageSets,
        words \in {<<>>, << <<"x">> >>} :
       \E fails \in SUBSET flags :
          tts = [IdleTts EXCEPT !.fn = "tts_filter", !.text = text,
                                !.flags = flags, !.words = words,
                                !.replacement = <<"#">>, !.fails = fails,
                                !.translation = <<"T", "M">>]

\* tts_filter(text, remove_special_char, ignore_brackets, ...,
\* forbidden_words_enabled, forbidden_words, forbidden_words_replacement,
\* translator)
TtsFilterCall ==
  /\ ~tts.done
  /\ tts.fn = "tts_filter"
  /\ LET r == TtsFilter(tts.text, tts)
     IN  tts' = [tts EXCEPT !.done = TRUE, !.ran = r.ran, !.sent = r.sent,
                            !.result = r.text]
  /\ op' = "tts"
  /\ raised' = FALSE
  /\ UNCHANGED othersOfTts

NextTts == TtsFilterCall

SpecTts == InitTts /\ [][NextTts]_vars

\* ----------------------------------------------------------------- claims

\* The vector at every ordinal is the embedding of the record at that ordinal.
Aligned ==
  /\ Len(index) = Len(metadata)
  /\ \A i \in 1..Len(metadata) : index[i] = Embed(metadata[i].content)

NoDuplicates(records) ==
  \A i, j \in 1..Len(records) : records[i] = records[j] => i = j

Contains(records, r) == \E i \in 1..Len(records) : records[i] = r

\* What the two files hold is aligned, or they do not both hold something.
FilesAligned ==
  (diskIndex.st = "ok" /\ diskMeta.st = "ok") =>
     LET idx == IndexFromBytes(diskIndex.data)
         recs == JsonLoad(diskMeta.data)
     IN  /\ Len(idx) = Len(recs)
         /\ \A i \in 1..Len(recs) : idx[i] = Embed(recs[i].content)

\* C1: a store created empty or loaded from files that are aligned is aligned,
\* and every later step of it (the import that ends its construction, an
\* add_memory call stored, skipped or dropped, a save that succeeds or fails)
\* leaves it aligned: the index holds as many vectors as there are records,
\* the i-th being the embedding of the i-th record's content.
C1_IndexAlignedWithRecords ==
  [][/\ (pc = "constructed" /\ pc' = "loaded" /\ FilesAligned) => Aligned'
     /\ (pc \in {"loaded", "ready"} /\ pc' = "ready" /\ Aligned) => Aligned']_vars

C1_Witness ==
  /\ op = "add"
  /\ outcome = "dropped"
  /\ Len(metadata) = 2
  /\ index[1] # index[2]
  /\ Aligned

\* C2: no two records of the store have the same (content, role, timestamp),
\* and an add_memory call either leaves the records and the index as they were
\* or appends one record whose triple no record had, with its vector: a call
\* whose triple is already stored changes nothing.
C2_AddIdempotent ==
  /\ []NoDuplicates(metadata)
  /\ [][op' = "add" =>
          \/ (metadata' = metadata /\ index' = index)
          \/ /\ Len(metadata') = Len(metadata) + 1
             /\ SubSeq(metadata', 1, Len(metadata)) = metadata
             /\ ~Contains(metadata, metadata'[Len(metadata')])
             /\ Len(index') = Len(index) + 1
             /\ SubSeq(index', 1, Len(index)) = index]_vars

C2_Witness ==
  /\ op = "add"
  /\ outcome = "duplicate"
  /\ Len(metadata) = 2

\* C3 (as claimed): whatever happened to earlier saves, a store loaded from
\* the two files has as many vectors as records.
C3_FilesDescribeSameEntries ==
  (pc = "loaded" /\ op = "load") => Len(index) = Len(metadata)

GoodLoadEnv ==
  [readIndex |-> TRUE, readMeta |-> TRUE, toGpuLoad |-> TRUE,
   toGpuCreate |-> TRUE]

\* C4: after a save that replaced both files of a store with at least one
\* record, loading the files into a new store gives the records of the saved
\* store, in order, and its vectors, in order.
C4_SaveLoadRoundTrip ==
  (pc = "ready" /\ op = "save" /\ saves = 1 /\ saveOk) =>
     LET r == LoadOrCreateIndex([Store EXCEPT !.index = <<>>, !.metadata = <<>>],
                                GoodLoadEnv)
     IN  /\ ~r.raised
         /\ r.st.metadata = metadata
         /\ r.st.index = index

C4_Witness ==
  /\ pc = "ready"
  /\ op = "save"
  /\ saveOk
  /\ Len(metadata) = 2
  /\ metadata[1].content # metadata[2].content
  /\ index[1] # index[2]

\* C5: _load_or_create_index leaves either what the two files hold, and then
\* both files are intact, or an empty index with no records; the state of the
\* files alone never makes it raise (it raises only on cuda, when the new
\* index cannot be moved to the GPU).
C5_LoadAllOrNothing ==
  op = "load" =>
     /\ raised => device = "cuda"
     /\ ~raised =>
          \/ /\ diskIndex.st = "ok"
             /\ diskMeta.st = "ok"
             /\ index = IndexFromBytes(diskIndex.data)
             /\ metadata = JsonLoad(diskMeta.data)
          \/ (index = <<>> /\ metadata = <<>>)

C5_Witness ==
  /\ op = "load"
  /\ ~raised
  /\ diskIndex.st = "ok"
  /\ diskIndex.data.ntotal > 0
  /\ diskMeta.st = "corrupt"
  /\ index = <<>>
  /\ metadata = <<>>

\* C6: an add_memory call whose embedding or index.add raises returns without
\* raising and leaves the records, the index and the files as they were.
C6_FailedAddDropsMemory ==
  [][(op' = "add" /\ outcome' = "dropped") =>
        /\ ~raised'
        /\ metadata' = metadata
        /\ index' = index
        /\ diskIndex' = diskIndex
        /\ diskMeta' = diskMeta]_vars

C6_Witness ==
  /\ op = "add"
  /\ outcome = "dropped"
  /\ ~raised
  /\ Len(metadata) = 1

\* C7 (as claimed): an add_memory call that stores a record saves exactly when
\* it is the 10th, 20th, ... such call since the store was constructed.
C7_EveryTenthAdditionSaves ==
  (op = "add" /\ outcome = "stored") => (saves > 0 <=> nAdded % SaveEvery = 0)

\* C7 (amended): an add_memory call saves, once, exactly when it stores a
\* record and the store then holds a multiple of 10 records, the records
\* loaded at construction included.
C7_SavesAtMultiplesOfTen ==
  op = "add" =>
     saves = IF outcome = "stored" /\ Len(metadata) % SaveEvery = 0 THEN 1 ELSE 0

C7_Witness ==
  /\ op = "add"
  /\ outcome = "stored"
  /\ saves = 1
  /\ Len(metadata) = SaveEvery
  /\ nAdded < SaveEvery

\* The conversation turns of the history that have a non-blank content, as
\* the records they are imported as.
HistoryTurns(hs) ==
  {Record(hs[pl[1]][pl[2]].role, hs[pl[1]][pl[2]].content,
          MsgTimestamp(hs[pl[1]][pl[2]])) :
     pl \in {q \in Places(hs) :
               /\ hs[q[1]][q[2]].role \in {"human", "ai"}
               /\ Strip(hs[q[1]][q[2]].content) # <<>>}}

Count(records, r) == Cardinality({i \in 1..Len(records) : records[i] = r})

\* A second construction over the files as they are and the same history, in
\* which nothing fails.
SecondConstruction ==
  LET loaded == LoadOrCreateIndex([Store EXCEPT !.index = <<>>, !.metadata = <<>>],
                                  GoodLoadEnv)
  IN  LoadExistingMemories(loaded.st, history,
                           [failAt |-> Len(history) + 1, addFails |-> {},
                            io |-> QuietIO])

C9_ImportPersistsOnceIffAdded ==
  (op = "import" /\ outcome # "aborted") =>
     saves = IF appended > 0 THEN 1 ELSE 0

\* [A-Za-z0-9_-]
AsciiSafe(ch) == ch \in Letters \cup Digits \cup {"_", "-"}

\* s without the whitespace around it: the stretch from its first to its last
\* character that is no whitespace.
Trimmed(s) ==
  LET solid == {i \in 1..Len(s) : s[i] \notin Whitespace}
  IN  IF solid = {} THEN <<>>
      ELSE SubSeq(s, CHOOSE i \in solid : \A j \in solid : i <= j,
                     CHOOSE i \in solid : \A j \in solid : j <= i)

\* What follows the last path separator of s.
LastComponent(s) ==
  LET seps == {i \in 1..Len(s) : s[i] = "/"}
  IN  IF seps = {} THEN s
      ELSE SubSeq(s, (CHOOSE i \in seps : \A j \in seps : j <= i) + 1, Len(s))

Searched ==
  /\ op = "search"
  /\ search.fail = "none"
  /\ Strip(search.query) # <<>>
  /\ metadata # <<>>

\* The threshold and the budget in force in the last search.
ThresholdInForce ==
  IF search.threshold.given THEN search.threshold.value ELSE DefaultThreshold

BudgetInForce ==
  IF search.maxLength.given THEN search.maxLength.value ELSE DefaultMaxLength

\* C11: the text search_relevant_context returns, header and separators
\* included, is never longer than max_chars.
C11_ContextWithinBudget ==
  op = "search" => Len(search.result) <= BudgetInForce

\* C12: no result whose computed similarity is below the threshold in force
\* (the override when given, 0 included, else the default of the store) is
\* taken into the context.
C12_NothingBelowThreshold ==
  op = "search" =>
     \A n \in 1..Len(search.picked) :
        search.sims[search.picked[n]] >= ThresholdInForce

C12_Witness ==
  /\ Searched
  /\ search.threshold = Some(0)
  /\ search.picked # <<>>
  /\ \E i \in 1..Len(search.results) :
        /\ search.results[i].idx >= 0
        /\ search.sims[i] < 0
        /\ search.sims[i] >= -SimScale

\* C13: the similarity used for filtering is 1 - d^2/2 for the Euclidean
\* distance d between the query vector and the stored one (here
\* SimScale - 25 * d^2 with d^2 in 25ths): 1.0 for a vector identical to the
\* query and -1.0 for the opposite one.
C13_SimilarityIsCosine ==
  Searched =>
     \A i \in 1..Len(search.results) :
        search.results[i].idx >= 0 =>
           search.sims[i] =
              SimScale - 25 * L2Sqr(Embed(search.query),
                                    index[search.results[i].idx + 1])

\* The places of the results of the last search that have a record and a
\* similarity at or above the threshold, nearest first.
Qualifying ==
  SelectSeq([i \in 1..Len(search.results) |-> i],
            LAMBDA i : /\ search.results[i].idx >= 0
                       /\ search.results[i].idx < Len(metadata)
                       /\ search.sims[i] >= ThresholdInForce)

EntryAt(i) == MemoryText(metadata[search.results[i].idx + 1])

\* The running total of the first n qualifying entries.
RECURSIVE RunningTotal(_)
RunningTotal(n) ==
  IF n = 0 THEN 0 ELSE RunningTotal(n - 1) + Len(EntryAt(Qualifying[n])) + 2

\* C14: the context holds exactly the longest prefix, nearest first, of the
\* qualifying results among the min(10, record count) nearest whose running
\* total of entry length + 2 stays within max_chars; nothing after the first
\* entry that overflows is taken.
C14_GreedyPrefix ==
  Searched =>
     /\ Len(search.results) = Min(TopK, Len(metadata))
     /\ \A i \in 1..(Len(search.results) - 1) :
           search.results[i].distance <= search.results[i + 1].distance
     /\ \A v \in 1..Len(index) :
           (\A i \in 1..Len(search.results) : search.results[i].idx # v - 1)
              => \A i \in 1..Len(search.results) :
                    search.results[i].distance <= L2Sqr(Embed(search.query), index[v])
     /\ \E n \in 0..Len(Qualifying) :
           /\ search.picked = SubSeq(Qualifying, 1, n)
           /\ RunningTotal(n) <= BudgetInForce
           /\ n < Len(Qualifying) => RunningTotal(n + 1) > BudgetInForce
           /\ search.result =
                IF n = 0 THEN <<>>
                ELSE Header \o Join([j \in 1..n |-> EntryAt(Qualifying[j])])

C14_Witness ==
  /\ Searched
  /\ Len(search.picked) = 1
  /\ Len(metadata) > TopK
  /\ \E j \in 3..Len(Qualifying) :
        RunningTotal(1) + Len(EntryAt(Qualifying[j])) + 2 <= BudgetInForce

\* C15: search_relevant_context returns the empty string, without error, for
\* an empty query, for a store without records and when no entry is taken;
\* every other result starts with the header line.
C15_EmptyOrHeaded ==
  op = "search" =>
     /\ ~raised
     /\ (Strip(search.query) = <<>> \/ metadata = <<>>) => search.result = <<>>
     /\ search.picked = <<>> => search.result = <<>>
     /\ search.result # <<>> =>
          /\ Len(search.result) > Len(Header)
          /\ SubSeq(search.result, 1, Len(Header)) = Header

C15_Witness ==
  /\ Searched
  /\ search.results # <<>>
  /\ search.picked = <<>>
  /\ search.result = <<>>

\* C16: search_relevant_context never raises and leaves the records and the
\* index as they were; when embedding the query or searching the index fails
\* it returns the empty string.
C16_SearchNeverRaisesNorMutates ==
  [][op' = "search" =>
       /\ ~raised'
       /\ index' = index
       /\ metadata' = metadata
       /\ <<diskIndex', diskMeta'>> = <<diskIndex, diskMeta>>
       /\ search'.fail # "none" => search'.result = <<>>]_vars

C16_Witness ==
  /\ op = "search"
  /\ search.fail \in {"embed", "search"}
  /\ Strip(search.query) # <<>>
  /\ metadata # <<>>
  /\ ~raised
  /\ search.result = <<>>

\* C17: extract_memories does not raise when a stage of it fails: when the
\* language model call or its stream raises, the response cannot be parsed or
\* is no dict, the importance cannot be converted to a float or the memories
\* are no list, it returns {importance: 0.0, memories: []}. (The call that
\* the caller cancels is the subject of C18.)
C17_ExtractNeverRaises ==
  (op = "extract" /\ extract.pc = "done" /\ extract.how # "cancelled") =>
     /\ ~raised
     /\ extract.flaw # "none" => extract.result = DefaultResult
     /\ Strip(extract.content) = <<>> => extract.result = DefaultResult

C17_Witness ==
  /\ op = "extract"
  /\ extract.pc = "done"
  /\ extract.flaw = "importance"
  /\ extract.how = "exception"
  /\ ~raised
  /\ extract.result = DefaultResult

\* C18: an extraction the caller cancels while the stream of the language
\* model is in flight resolves to {importance: 0.0, memories: []} and the
\* cancellation does not leave extract_memories.
C18_CancelledResolvesToDefault ==
  (op = "extract" /\ extract.pc = "done" /\ extract.how = "cancelled") =>
     /\ ~raised
     /\ extract.result = DefaultResult

\* C19: whatever the language model answers, the importance of the result
\* extract_memories returns lies in [0, 1].
C19_ImportanceInUnitInterval ==
  (op = "extract" /\ extract.pc = "done" /\ ~raised) =>
     /\ ~extract.result.importance.nan
     /\ extract.result.importance.tenths >= 0
     /\ extract.result.importance.tenths <= 10

\* C20: the serialization of a dict without backticks, in code fences or not
\* and with trailing commas before its closing braces and brackets or not,
\* parses to that dict; a strictly valid text is decoded by the first
\* json.loads, and there is at most one repair pass.
C20_FencedOrCommaParsesSame ==
  op = "parse" =>
     /\ extract.parsed.ok
     /\ extract.parsed.val = extract.sent
     /\ ~extract.comma => extract.parsed.loads = 1
     /\ extract.parsed.loads <= 2

\* The text holds no "{", no "}", or its last "}" before its first "{".
NoJsonObject(text) ==
  \/ Find(text, "{") = 0
  \/ RFind(text, "}") = 0
  \/ RFind(text, "}") < Find(text, "{")

\* The stream of the extraction came to its end and the response was looked at.
Answered ==
  /\ op = "extract"
  /\ extract.pc = "done"
  /\ extract.calls = 1
  /\ extract.how # "cancelled"
  /\ extract.flaw # "llm-raises"

\* C21: extract_memories returns {importance: 0.0, memories: []} and does not
\* raise when the content is empty or whitespace-only, and when the response
\* holds no "{", no "}", or its last "}" before its first "{".
C21_DefaultForBlankOrBraceless ==
  (op = "extract" /\ extract.pc = "done" /\ extract.how # "cancelled"
     /\ (Strip(extract.content) = <<>>
           \/ (Answered /\ NoJsonObject(extract.text)))) =>
     /\ ~raised
     /\ extract.result = DefaultResult

C21_Witness ==
  /\ Answered
  /\ extract.content = Hi
  /\ extract.text = <<"}", " ", "{">>
  /\ ~raised
  /\ extract.result = DefaultResult

\* C22: when the dict the response parses to has no importance key or no
\* memories key, extract_memories returns {importance: 0.0, memories: []}; a
\* response with a list of memories and no importance does not return those
\* memories.
C22_MissingFieldDefaults ==
  (Answered /\ extract.parsed.ok /\ extract.parsed.val.t = "obj"
     /\ (~DictHas(extract.parsed.val, KeyImportance)
           \/ ~DictHas(extract.parsed.val, KeyMemories))) =>
     extract.result = DefaultResult

\* A dict with the key summary.
Qualifies(m) == m.t = "obj" /\ DictHas(m, KeySummary)

\* The memories of the dict the response parsed to.
ResponseMemories == DictGet(extract.parsed.val, KeyMemories, JArr(<<>>))

\* C23: every entry of the memories extract_memories returns is a dict with a
\* summary key; when the response is a dict whose memories are a list, the
\* entries returned are the entries of that list which are such dicts, in
\* their order, and the others are dropped without making the result the
\* default.
C23_MemoriesFiltered ==
  (op = "extract" /\ extract.pc = "done") =>
     /\ \A i \in 1..Len(extract.result.memories) :
           Qualifies(extract.result.memories[i])
     /\ (Answered /\ extract.how = "returned" /\ Strip(extract.text) # <<>>
          /\ extract.parsed.ok /\ extract.parsed.val.t = "obj"
          /\ extract.parsed.val.items # <<>>
          /\ ResponseMemories.t = "arr") =>
           extract.result.memories = SelectSeq(ResponseMemories.items, Qualifies)

C23_Witness ==
  /\ Answered
  /\ extract.how = "returned"
  /\ extract.parsed.ok
  /\ Len(ResponseMemories.items) = 5
  /\ Len(extract.result.memories) = 3
  /\ extract.result.memories[3] = ResponseMemories.items[5]
  /\ extract.result.importance = Float(5)

\* The steps of one call, by the position before and after.
ExtractSteps ==
  {<<"idle", "streaming">>, <<"idle", "done">>, <<"streaming", "streaming">>,
   <<"streaming", "parsing">>, <<"streaming", "done">>, <<"parsing", "done">>}

\* C24: a call of extract_memories moves forward through idle, streaming,
\* parsing and done and never back: the language model is called at most once
\* in a call and not at all for blank content, only the str chunks of the
\* stream are appended to the response, a stream that raises ends the call
\* with a result, and a call whose stream has ended returns a result.
C24_ForwardOnceAndReturns ==
  /\ [][/\ <<extract.pc, extract'.pc>> \in ExtractSteps
        /\ extract'.calls <= 1
        /\ extract'.calls =
             (IF <<extract.pc, extract'.pc>> = <<"idle", "streaming">>
              THEN 1 ELSE extract.calls)
        /\ Strip(extract'.content) = <<>> => extract'.calls = 0
        /\ extract'.text =
             (IF <<extract.pc, extract'.pc>> = <<"streaming", "streaming">>
                 /\ Head(extract.chunks).str
              THEN extract.text \o Head(extract.chunks).text
              ELSE extract.text)
        /\ extract'.flaw = "llm-raises" =>
             extract'.pc = "done" /\ ~raised']_vars
  /\ (extract.pc = "parsing") ~> (extract.pc = "done" /\ ~raised)

C24_Witness ==
  /\ Answered
  /\ extract.how = "returned"
  /\ extract.chunks = <<>>
  /\ extract.sent = GoodObject
  /\ extract.result.memories # <<>>

\* C25: when use_memory_filtering is on and an extractor could be created,
\* the store is constructed and holds that extractor; when it is off, the
\* store is constructed without one.
C25_FilteringGatesExtractor ==
  (op = "agent" /\ agent.done /\ agent.enable /\ agent.confUid = Some(Char01)) =>
     /\ (FilteringSetting(agent.filtering) /\ agent.extractor) =>
           agent.manager /\ agent.managerExtractor
     /\ ~FilteringSetting(agent.filtering) =>
           agent.manager /\ ~agent.managerExtractor

\* C26: no failure of the accelerator is fatal to the construction: when
\* moving the loaded index to the GPU or creating the new index on the GPU
\* fails, _load_or_create_index still ends with an index on the CPU.
C26_AcceleratorFailureNotFatal ==
  op = "load" => ~raised /\ pc = "loaded"

\* C27: save does not raise and leaves the records, the index and the device
\* as they were, with the store ready for further calls, whatever the GPU copy
\* and the two writes do; when the copy of a GPU index to the CPU fails, the
\* index is written directly.
C27_SaveNeverRaisesNorMutates ==
  [][op' = "save" =>
       /\ ~raised'
       /\ index' = index
       /\ metadata' = metadata
       /\ device' = device
       /\ pc' = "ready"
       /\ (device = "cuda" /\ metadata # <<>> /\ ~call'.io.gpuToCpu) =>
             diskIndex' = WriteFile(diskIndex, IndexBytes(index), NoIndexData,
                                    call'.io.wDirect)]_vars

C27_Witness ==
  /\ op = "save"
  /\ device = "cuda"
  /\ Len(metadata) = 2
  /\ ~call.io.gpuToCpu
  /\ call.io.wDirect = "ok"
  /\ call.io.wMeta = "keep"
  /\ diskIndex = [st |-> "ok", data |-> IndexBytes(index)]
  /\ diskMeta.st = "absent"
  /\ ~saveOk
  /\ ~raised
  /\ pc = "ready"

\* C28: add_memory with empty or whitespace-only content, whatever the role
\* and the timestamp, leaves the records, the index and both files as they
\* were and saves nothing.
C28_BlankAddIsNoOp ==
  [][(op' = "add" /\ Strip(call'.turn.content) = <<>>) =>
       /\ metadata' = metadata
       /\ index' = index
       /\ diskIndex' = diskIndex
       /\ diskMeta' = diskMeta
       /\ saves' = 0
       /\ ~raised']_vars

C28_Witness ==
  /\ op = "add"
  /\ call.turn = Record("human", Blank, "t1")
  /\ Len(metadata) = 1
  /\ diskMeta.st = "ok"
  /\ saves = 0
  /\ appended = 0

\* C29: save on a store without records writes neither file and leaves the
\* files on disk as they are.
C29_EmptySaveIsNoOp ==
  [][(op' = "save" /\ metadata = <<>>) =>
       /\ diskIndex' = diskIndex
       /\ diskMeta' = diskMeta
       /\ saves' = 0]_vars

C29_Witness ==
  /\ op = "save"
  /\ metadata = <<>>
  /\ index = <<>>
  /\ diskIndex.st = "ok"
  /\ diskMeta.st = "ok"
  /\ Len(diskMeta.data) = 2
  /\ call.io.wIndex = "ok"
  /\ saves = 0

\* The records of a are the first records of b, in their order.
IsPrefix(a, b) == Len(a) <= Len(b) /\ SubSeq(b, 1, Len(a)) = a

\* C30: records are only ever appended: over every add_memory, save and
\* search_relevant_context call on a constructed store the record list
\* before the call is a prefix of the record list after it.
C30_RecordsAppendOnly ==
  [][op' \in {"add", "save", "search"} => IsPrefix(metadata, metadata')]_vars

C30_Witness ==
  /\ op = "add"
  /\ outcome = "stored"
  /\ Len(metadata) = 2
  /\ diskMeta.st = "ok"
  /\ Len(diskMeta.data) = 1

\* C31: add_memory calls on one store are serialized: once no call is in
\* flight, whatever the interleaving of the calls was, the records hold no
\* triple twice and the index holds as many vectors as there are records.
C31_ConcurrentAddsSerialized ==
  (\A w \in Writers : writers[w].pc = "idle") =>
     /\ NoDuplicates(metadata)
     /\ Len(index) = Len(metadata)

\* The machine of the watched constructor call can carry an index on a GPU.
Accelerated ==
  /\ ~call.sys.isWindows
  /\ call.sys.cudaAvailable
  /\ call.sys.hasGpu
  /\ call.sys.gpuAlloc

\* C32: once the constructor is past its device choice, the device is cpu or
\* cuda; it is cuda only off Windows with CUDA, a GPU build of the index
\* library and an allocated GPU resource; auto without one of these, and an
\* unrecognized device string, give cpu.
C32_DeviceResolved ==
  (call # IdleCall /\ pc \in {"constructed", "loaded", "ready"}) =>
     /\ device \in {"cpu", "cuda"}
     /\ device = "cuda" => Accelerated
     /\ (call.device = "auto" /\ ~Accelerated) => device = "cpu"
     /\ call.device \notin {"auto", "cpu", "cuda"} => device = "cpu"

C32_Witness ==
  /\ call # IdleCall
  /\ pc = "ready"
  /\ device = "cuda"
  /\ call.device = "auto"

\* C33: between add_memory calls on a constructed store, at most 9 records
\* are in memory that were appended since the files were last written or
\* tried to be written: a crash loses at most 9 additions.
C33_AtMostNineUnsaved ==
  pc = "ready" => unsaved <= SaveEvery - 1

C33_Witness ==
  /\ pc = "ready"
  /\ op = "add"
  /\ outcome = "stored"
  /\ unsaved = SaveEvery - 1

\* C34: when reading the history raised during the import, the constructor
\* still returns a store, the index is aligned with the records, and the
\* records the import appended before the failure were written to the files
\* (the write was at least attempted) before the constructor returned.
C34_AbortedImportPersists ==
  (op = "import" /\ outcome = "aborted") =>
     /\ pc = "ready"
     /\ ~raised
     /\ Aligned
     /\ appended > 0 => saves > 0

\* C35: create_agent with enable_rag_memory on, a valid conf_uid and every
\* dependency loadable hands the agent a RAG memory manager, whatever the
\* filtering setting and the device are.
C35_ManagerWhenEnabled ==
  (op = "agent" /\ agent.done /\ agent.enable /\ agent.confUid = Some(Char01)) =>
     agent.manager

\* C36: create_agent leaves the configuration it is given as it was, a
\* second call with the same objects uses the interrupt_method and the LLM
\* configuration of the first, and a provider without a configuration is
\* reported with the 'Configuration not found' ValueError.
C36_ConfigUnmodified ==
  llm.calls > 0 =>
     /\ llm.config = llm.orig
     /\ llm.last = llm.first
     /\ (llm.provider # "" /\ ~llm.orig.given) =>
           llm.last.error = "ValueError: Configuration not found"

\* The depth after the first i characters of text: a left symbol raises it, a
\* right symbol lowers it unless it is 0.
RECURSIVE DepthAfter(_, _, _, _)
DepthAfter(text, i, left, right) ==
  IF i = 0 THEN 0
  ELSE LET d == DepthAfter(text, i - 1, left, right)
       IN  IF text[i] = left THEN d + 1
           ELSE IF text[i] = right THEN (IF d > 0 THEN d - 1 ELSE 0)
           ELSE d

\* text without its character i.
Dropped(text, i) == SubSeq(text, 1, i - 1) \o SubSeq(text, i + 1, Len(text))

\* The characters of text that are no symbol and lie at depth 0, in order.
RECURSIVE AtDepthZero(_, _, _, _)
AtDepthZero(text, n, left, right) ==
  IF n = 0 THEN <<>>
  ELSE AtDepthZero(text, n - 1, left, right)
       \o (IF /\ text[n] \notin {left, right}
              /\ DepthAfter(text, n - 1, left, right) = 0
           THEN <<text[n]>> ELSE <<>>)

\* text with every run of whitespace that has other characters on both sides
\* made one space, and without the whitespace at its ends.
SpacesCleaned(text) ==
  LET solid(i) == text[i] \notin Whitespace
      keep == SelectSeq([i \in 1..Len(text) |-> i],
                        LAMBDA i : \/ solid(i)
                                   \/ /\ i > 1
                                      /\ solid(i - 1)
                                      /\ \E j \in (i + 1)..Len(text) : solid(j))
  IN  [k \in 1..Len(keep) |->
         IF text[keep[k]] \in Whitespace THEN " " ELSE text[keep[k]]]

\* C38 (as claimed): a nested filter returns exactly the characters at depth
\* 0, in order.
C38_ExactlyDepthZero ==
  (tts.done /\ tts.fn \in NestedFilters) =>
     tts.result = AtDepthZero(tts.text, Len(tts.text), Symbols[tts.fn][1],
                              Symbols[tts.fn][2])

\* C38 (amended): a nested filter returns the characters at depth 0, in
\* order, with every run of whitespace among them made one space and the
\* whitespace at both ends removed; neither symbol is in the output; an
\* unmatched right symbol is dropped and removes nothing else; an unmatched
\* left symbol removes everything after it; filtering the output again
\* changes nothing.
C38_DepthZeroWithCleanSpaces ==
  (tts.done /\ tts.fn \in NestedFilters) =>
     LET left == Symbols[tts.fn][1]
         right == Symbols[tts.fn][2]
         text == tts.text
         zero == AtDepthZero(text, Len(text), left, right)
     IN  /\ tts.result = SpacesCleaned(zero)
         /\ \A i \in 1..Len(tts.result) : tts.result[i] \notin {left, right}
         /\ \A i \in 1..Len(text) :
               (text[i] = right /\ DepthAfter(text, i - 1, left, right) = 0)
               => tts.result = FilterNested(Dropped(text, i), left, right)
         /\ \A i \in 1..Len(text) :
               (/\ text[i] = left
                /\ DepthAfter(text, i - 1, left, right) = 0
                /\ \A j \in i..Len(text) : DepthAfter(text, j, left, right) > 0)
               => tts.result = FilterNested(SubSeq(text, 1, i - 1), left, right)
         /\ FilterNested(tts.result, left, right) = tts.result

C38_Witness ==
  /\ tts.done
  /\ tts.fn = "filter_parentheses"
  /\ tts.text = <<"a", "\n", "a", "(", ")">>
  /\ tts.result = <<"a", " ", "a">>

\* word is somewhere in text.
Occurs(word, text) == \E i \in 1..Len(text) : MatchesAt(text, word, i)

\* C39: after filter_forbidden_words no word of the list that is not empty
\* occurs in the returned text, whatever the text, the list and the
\* replacement are.
C39_NoForbiddenWordLeft ==
  (tts.done /\ tts.fn = "filter_forbidden_words") =>
     \A w \in 1..Len(tts.words) :
        tts.words[w] # <<>> => ~Occurs(tts.words[w], tts.result)

\* The stages tts_filter is asked to run and whose condition holds, in the
\* order asterisks, brackets, parentheses, angle brackets, special
\* characters, forbidden words, translation.
StagesAsked ==
  SelectSeq(<<"asterisks", "brackets", "parentheses", "angle_brackets",
              "special_char", "forbidden_words", "translate">>,
            LAMBDA stage : /\ stage \in tts.flags
                           /\ stage = "forbidden_words" => tts.words # <<>>)

\* The text after the first k of the stages that were asked for: a stage
\* that fails leaves it as it was.
RECURSIVE TextAfter(_)
TextAfter(k) ==
  IF k = 0 THEN tts.text
  ELSE IF StagesAsked[k] \in tts.fails THEN TextAfter(k - 1)
  ELSE StageApply(StagesAsked[k], TextAfter(k - 1), tts)

\* C37: tts_filter does not raise; every stage that is asked for runs, in
\* the fixed order, whether or not an earlier stage failed; a stage that
\* fails leaves the text as it was before it; the translator gets the text
\* that the stages before it left.
C37_StagesInOrderNeverRaises ==
  (tts.done /\ tts.fn = "tts_filter") =>
     /\ ~tts.raised
     /\ ~raised
     /\ tts.ran = StagesAsked
     /\ tts.result = TextAfter(Len(StagesAsked))
     /\ "translate" \in tts.flags =>
           tts.sent = TextAfter(Len(StagesAsked) - 1)

C37_Witness ==
  /\ tts.done
  /\ tts.fn = "tts_filter"
  /\ Len(tts.text) > 4
  /\ tts.flags = {"asterisks", "brackets", "parentheses", "angle_brackets",
                  "special_char", "forbidden_words", "translate"}
  /\ tts.words # <<>>
  /\ tts.fails = {"brackets", "translate"}
  /\ tts.result = <<"[", "b", "]", "#">>

====
